---- MODULE Spec2Model ----
(***************************************************************************)
(* A model of The Forge's data curation and scoring engine                 *)
(* (trainer/scripts): prepare-data.py, classify.py and evaluate.py.         *)
(*                                                                         *)
(* Prompts are sequences of one-character strings, so that strip() and      *)
(* lower() are computed.  Response texts are abstracted to the features    *)
(* the code reads: their length, the number of ``` fences, the number of   *)
(* reject phrases they contain, and so on.                                  *)
(***************************************************************************)
EXTENDS Integers, Sequences, FiniteSets, TLC

\* ------------------------------------------------------------------------
\* Bounds of the model
\* ------------------------------------------------------------------------
\* the number of input lines of one prepare-data invocation under Spec
MaxLines == 2
\* the number of prepare-data invocations of one behaviour under SpecRuns
MaxRuns == 2
\* the number of prepare-data invocations of one behaviour under SpecTwin
MaxTwinRuns == 3

\* ------------------------------------------------------------------------
\* Python helpers
\* ------------------------------------------------------------------------
Min(a, b) == IF a <= b THEN a ELSE b

\* int(x) of a rational num/den (den > 0): truncation toward zero
PyInt(num, den) == IF num >= 0 THEN num \div den ELSE -((-num) \div den)

\* s[:i] and s[i:] with Python's treatment of negative and oversized indices
PyIndex(s, i) == IF i < 0 THEN (IF Len(s) + i < 0 THEN 0 ELSE Len(s) + i)
                 ELSE Min(i, Len(s))
PySliceTo(s, i) == SubSeq(s, 1, PyIndex(s, i))
PySliceFrom(s, i) == SubSeq(s, PyIndex(s, i) + 1, Len(s))

RECURSIVE Concat(_)
Concat(ss) == IF ss = <<>> THEN <<>> ELSE Head(ss) \o Concat(Tail(ss))

\* str.strip() and str.lower() over the characters the model's prompts use
WhitespaceChars == {" ", "\t", "\n"}

lower_char(c) ==
    CASE c = "A" -> "a" [] c = "B" -> "b" [] c = "F" -> "f"
      [] c = "I" -> "i" [] c = "X" -> "x" [] OTHER -> c

RECURSIVE lstrip(_)
lstrip(s) == IF s # <<>> /\ Head(s) \in WhitespaceChars THEN lstrip(Tail(s)) ELSE s

RECURSIVE rstrip(_)
rstrip(s) ==
    IF s # <<>> /\ s[Len(s)] \in WhitespaceChars
    THEN rstrip(SubSeq(s, 1, Len(s) - 1)) ELSE s

strip(s) == rstrip(lstrip(s))

lower(s) == [i \in 1..Len(s) |-> lower_char(s[i])]

\* ------------------------------------------------------------------------
\* prepare-data.py: texts and records
\* ------------------------------------------------------------------------
\* A response text, by the features the code reads from it.
\*   len     len(text)
\*   fences  text.count("```")
\*   garbage number of CLAUDE_REJECT_PATTERNS it contains
\*   rawjson text.strip() starts with {"type": or {"result":
\*   errmark it contains "is_error":true or "stop_reason":null
\*   tool    it contains "[Tool:"
\*   marks   it contains "+" or "-"
Text(n, f) ==
    [len |-> n, fences |-> f, garbage |-> 0, rawjson |-> FALSE,
     errmark |-> FALSE, tool |-> FALSE, marks |-> FALSE]

NoText == Text(0, 0)

Truthy(t) == t.len > 0

TaskTypes == <<"coding", "reasoning", "tools", "chat">>

NoHits == [t \in {"coding", "reasoning", "tools", "chat"} |-> 0]

\* a record of the pipeline ("pair"); "" is an absent string
Pair(type, task_type, prompt, claude, local, diff, gold) ==
    [type |-> type, task_type |-> task_type, prompt |-> prompt,
     claude_response |-> claude, local_response |-> local,
     ground_truth_diff |-> diff, gold_response |-> gold,
     task_type_confidence |-> -1,
     hits |-> NoHits, prompt_fenced |-> FALSE]

MaxChars == 24000
DefaultMinPromptLength == 20
DefaultMinResponseLength == 50
ToolPromptMinLength == 20
GroundTruthMinDiff == 100

\* an optional key of the domain configuration: {} when absent, {v} when set
Absent == {}
Set(v) == {v}
GetOr(opt, default) == IF opt = {} THEN default ELSE CHOOSE v \in opt : TRUE

has_code_block(text) == text.fences >= 1

count_code_blocks(text) == text.fences \div 2

is_ground_truth(pair) ==
    pair.type = "ground_truth" /\ Truthy(pair.ground_truth_diff)

is_permission_garbage(text) ==
    \/ ~Truthy(text)
    \/ text.garbage >= 3
    \/ text.rawjson

\* prompt_hash without .lower()
prompt_hash_without_lower(prompt) == strip(prompt)

\* hashlib.sha256(normalized).hexdigest()[:16] is modelled by the normalized
\* prompt itself: distinct normalized prompts have distinct digests
prompt_hash(prompt) == lower(strip(prompt))

\* ------------------------------------------------------------------------
\* prepare-data.py: the three loaders
\* ------------------------------------------------------------------------
\* A line of an input file is a JSON object ("object"), a text that
\* json.loads rejects with JSONDecodeError ("malformed"), or one that makes
\* the read raise another exception ("unreadable": bytes that are not valid in
\* the encoding of the file, as a line cut inside a multi-byte character, for
\* which the iteration over the file raises UnicodeDecodeError; an unclosed
\* nesting or number so long that json.loads raises RecursionError or
\* ValueError).  Only the kind of a line that is not an object is read.
NonJsonKinds == {"malformed", "unreadable"}

\* the loaders catch json.JSONDecodeError only: any other exception leaves
\* the loader, and main, which catches nothing
loader_raises(file) == \E i \in 1..Len(file) : file[i].kind = "unreadable"

RawLine(pair) == [kind |-> "object", obj |-> pair]

\* a message of a self-iterate trace: the user's content is a prompt, the
\* assistant's content a response text
UserMsg(prompt) == [role |-> "user", prompt |-> prompt, content |-> NoText]
AssistantMsg(text) == [role |-> "assistant", prompt |-> <<>>, content |-> text]

SelfIterateLine(success, trace) ==
    [kind |-> "object", success |-> success, trace |-> trace]

\* an assistant turn of a tool trace: its content and the lengths
\* len(name) + len(arguments) of its tool calls
ToolMsg(role, text, calls) == [role |-> role, content |-> text, tool_calls |-> calls]

ToolLine(prompt, meta_type, trace) ==
    [kind |-> "object", prompt |-> prompt, meta_type |-> meta_type, trace |-> trace]

load_raw_pairs(file) ==
    LET Parsed(line) == line.kind = "object"
        kept == SelectSeq(file, Parsed)
    IN  [i \in 1..Len(kept) |-> kept[i].obj]

\* the first user message's content, <<>> (None) when there is none
RECURSIVE FirstUserPrompt(_)
FirstUserPrompt(trace) ==
    IF trace = <<>> THEN <<>>
    ELSE IF Head(trace).role = "user" THEN Head(trace).prompt
    ELSE FirstUserPrompt(Tail(trace))

\* the last assistant message's content, NoText (None) when there is none
RECURSIVE LastAssistant(_)
LastAssistant(trace) ==
    IF trace = <<>> THEN NoText
    ELSE IF trace[Len(trace)].role = "assistant" THEN trace[Len(trace)].content
    ELSE LastAssistant(SubSeq(trace, 1, Len(trace) - 1))

self_iterate_example(record, min_response_length) ==
    LET prompt == FirstUserPrompt(record.trace)
        last_assistant == LastAssistant(record.trace)
    IN  IF /\ record.success
           /\ Len(record.trace) >= 2
           /\ prompt # <<>>
           /\ Truthy(last_assistant)
           /\ last_assistant.len >= min_response_length
        THEN <<Pair("self_iterate", "coding", prompt, NoText, NoText, NoText,
                    last_assistant)>>
        ELSE <<>>

load_self_iterate_traces(file, min_response_length) ==
    LET Parsed(line) == line.kind = "object"
        kept == SelectSeq(file, Parsed)
    IN  Concat([i \in 1..Len(kept) |->
                   self_iterate_example(kept[i], min_response_length)])

\* full_response of a tool trace: each assistant content plus "\n", each tool
\* call rendered as "\n[Tool: name(arguments)]\n" (12 characters around them)
RECURSIVE SumSeq(_)
SumSeq(s) == IF s = <<>> THEN 0 ELSE Head(s) + SumSeq(Tail(s))

ToolMarkerLen(call) == 12 + call

TurnLen(msg) ==
    IF msg.role # "assistant" THEN 0
    ELSE (IF Truthy(msg.content) THEN msg.content.len + 1 ELSE 0)
         + SumSeq([i \in 1..Len(msg.tool_calls) |-> ToolMarkerLen(msg.tool_calls[i])])

FullResponseLen(trace) == SumSeq([i \in 1..Len(trace) |-> TurnLen(trace[i])])

\* whether full_response starts with the "\n" of a tool-call marker
RECURSIVE StartsWithMarker(_)
StartsWithMarker(trace) ==
    IF trace = <<>> THEN FALSE
    ELSE IF TurnLen(Head(trace)) = 0 THEN StartsWithMarker(Tail(trace))
    ELSE ~Truthy(Head(trace).content)

\* len(full_response.strip()): the trailing "\n" goes, and the leading one
StrippedLen(trace) ==
    LET n == FullResponseLen(trace)
    IN  IF n = 0 THEN 0
        ELSE n - 1 - (IF StartsWithMarker(trace) THEN 1 ELSE 0)

HasToolCalls(trace) ==
    \E i \in 1..Len(trace) : trace[i].role = "assistant" /\ trace[i].tool_calls # <<>>

FencesOf(trace) ==
    SumSeq([i \in 1..Len(trace) |->
              IF trace[i].role = "assistant" THEN trace[i].content.fences ELSE 0])

tool_trace_example(record, min_response_length) ==
    IF /\ Len(record.trace) >= 2
       /\ record.meta_type \in {"tool_use", "agent_loop"}
       /\ Len(record.prompt) >= ToolPromptMinLength
       /\ FullResponseLen(record.trace) >= min_response_length
    THEN <<Pair("tool_trace", "tools", record.prompt, NoText, NoText, NoText,
                [Text(StrippedLen(record.trace), FencesOf(record.trace))
                   EXCEPT !.tool = HasToolCalls(record.trace)])>>
    ELSE <<>>

load_tool_traces(file, min_response_length) ==
    LET Parsed(line) == line.kind = "object"
        kept == SelectSeq(file, Parsed)
    IN  Concat([i \in 1..Len(kept) |->
                   tool_trace_example(kept[i], min_response_length)])

\* ------------------------------------------------------------------------
\* classify.py
\* ------------------------------------------------------------------------
\* len(CODING_PATTERNS), len(REASONING_PATTERNS), len(TOOLS_PATTERNS),
\* len(CHAT_PATTERNS)
BankSize(t) ==
    CASE t = "coding" -> 13 [] t = "reasoning" -> 11 [] t = "tools" -> 14
      [] t = "chat" -> 8

\* Scores are kept as integers: a score x is ScoreScale * x, with ScoreScale
\* a common multiple of the bank sizes and of 20 (the bonuses are multiples
\* of 0.05).
ScoreScale == 13 * 11 * 14 * 8 * 20

Bonus(twentieths) == (ScoreScale \div 20) * twentieths

chat_bonus_under_60_only(prompt_len, has_any_signal) ==
    IF prompt_len < 60 /\ ~has_any_signal THEN Bonus(6) ELSE 0

\* lines 152-156: short prompts without a coding, reasoning or tools hit
chat_bonus(prompt_len, has_any_signal) ==
    IF prompt_len < 30 /\ ~has_any_signal THEN Bonus(10)
    ELSE IF prompt_len < 60 /\ ~has_any_signal THEN Bonus(6)
    ELSE 0

\* `raw` is the hit count of the prompt per bank; `hints` are the keyword
\* arguments: has_tool_calls, has_code, tools_used (the number of names in
\* the list) and response_length (0 for None as well)
classify_scores(raw, prompt_len, prompt_fenced, hints) ==
    LET has_any_signal == raw["coding"] > 0 \/ raw["reasoning"] > 0 \/ raw["tools"] > 0
        base == [t \in DOMAIN raw |-> (raw[t] * ScoreScale) \div BankSize(t)]
    IN  [t \in DOMAIN raw |->
           base[t]
           + (IF t = "tools" /\ hints.has_tool_calls THEN Bonus(8) ELSE 0)
           + (IF t = "tools" /\ hints.tools_used > 0
              THEN Bonus(2) * Min(hints.tools_used, 3) ELSE 0)
           + (IF t = "coding" /\ prompt_fenced THEN Bonus(5) ELSE 0)
           + (IF t = "coding" /\ hints.has_code /\ ~hints.has_tool_calls
              THEN Bonus(3) ELSE 0)
           + (IF t = "reasoning" /\ hints.response_length > 2000 THEN Bonus(2) ELSE 0)
           + (IF t = "chat" THEN chat_bonus(prompt_len, has_any_signal) ELSE 0)]

first_type_of(scores) == TaskTypes[1]

\* the last key, in insertion order, of the greatest score
last_best_type_of(scores) ==
    LET i == CHOOSE i \in 1..Len(TaskTypes) :
                /\ \A j \in 1..Len(TaskTypes) : scores[TaskTypes[j]] <= scores[TaskTypes[i]]
                /\ \A j \in (i + 1)..Len(TaskTypes) : scores[TaskTypes[j]] < scores[TaskTypes[i]]
    IN  TaskTypes[i]

\* max(scores, key=scores.get): the first key, in insertion order, of the
\* greatest score
best_type_of(scores) ==
    LET i == CHOOSE i \in 1..Len(TaskTypes) :
                /\ \A j \in 1..Len(TaskTypes) : scores[TaskTypes[j]] <= scores[TaskTypes[i]]
                /\ \A j \in 1..(i - 1) : scores[TaskTypes[j]] < scores[TaskTypes[i]]
    IN  TaskTypes[i]

\* sorted(scores.values(), reverse=True)[1]
second_score_of(scores) ==
    LET best == best_type_of(scores)
        others == {scores[t] : t \in (DOMAIN scores) \ {best}}
    IN  CHOOSE v \in others : \A u \in others : u <= v

classify_prompt(raw, prompt_len, prompt_fenced, hints) ==
    LET scores == classify_scores(raw, prompt_len, prompt_fenced, hints)
        gap == scores[best_type_of(scores)] - second_score_of(scores)
    IN  [type |-> best_type_of(scores), scores |-> scores,
         confidence |-> Min(ScoreScale, gap + Bonus(6))]

classify_pair(pair) ==
    LET response_text == IF Truthy(pair.claude_response) THEN pair.claude_response
                         ELSE pair.ground_truth_diff
        result == classify_prompt(pair.hits, Len(pair.prompt), pair.prompt_fenced,
                                  [has_tool_calls |-> response_text.tool,
                                   has_code |-> response_text.fences >= 1,
                                   tools_used |-> 0,
                                   response_length |-> response_text.len])
    IN  [pair EXCEPT !.task_type = result.type,
                     !.task_type_confidence = result.confidence]

DOMAIN_ACCEPTS(domain_id) ==
    CASE domain_id = "coding" -> {"coding"}
      [] domain_id = "reasoning" -> {"reasoning"}
      [] domain_id = "tools" -> {"tools", "coding"}
      [] domain_id = "chat" -> {"chat"}
      [] OTHER -> {domain_id}

pair_matches_domain(pair, domain_id) ==
    IF pair.task_type = "" THEN domain_id = "coding"
    ELSE pair.task_type \in DOMAIN_ACCEPTS(domain_id)

\* ------------------------------------------------------------------------
\* prepare-data.py: quality filter, deduplication, conversion, split
\* ------------------------------------------------------------------------
DomainThresholdOK(claude, domain_id) ==
    CASE domain_id = "coding" ->
              /\ claude.len >= 500
              /\ has_code_block(claude)
              /\ count_code_blocks(claude) >= 1
      [] domain_id = "reasoning" -> claude.len >= 200
      [] domain_id = "tools" -> claude.len >= 100
      [] domain_id = "chat" -> claude.len >= 20
      [] OTHER -> claude.len >= 500

prompt_longer_than_minimum(prompt, min_prompt_len) == Len(prompt) > min_prompt_len

\* line 212: len(prompt) < min_prompt_len
prompt_too_short(prompt, min_prompt_len) == Len(prompt) < min_prompt_len

\* max_chars is 24000 unless the caller passes another; main passes none
filter_pair(pair, domain, max_chars) ==
    LET min_prompt_len == GetOr(domain.min_prompt_length, DefaultMinPromptLength)
        claude == IF Truthy(pair.claude_response) THEN pair.claude_response
                  ELSE pair.ground_truth_diff
        total_len == Len(pair.prompt) + claude.len
    IN  IF prompt_too_short(pair.prompt, min_prompt_len) THEN FALSE
        ELSE IF total_len > max_chars THEN FALSE
        ELSE IF is_ground_truth(pair)
             THEN /\ domain.id = "coding"
                  /\ pair.ground_truth_diff.len >= GroundTruthMinDiff
                  /\ pair.ground_truth_diff.marks
        ELSE /\ Truthy(pair.claude_response)
             /\ Truthy(pair.local_response)
             /\ ~is_permission_garbage(pair.claude_response)
             /\ ~pair.claude_response.errmark
             /\ DomainThresholdOK(pair.claude_response, domain.id)

\* the loop of lines 377-384 without the call of filter_pair
keep_without_filter(pair, domain) == TRUE

\* main, lines 377-384: traces are appended without a call of filter_pair
quality_keep(pair, domain) ==
    IF pair.type \in {"self_iterate", "tool_trace"} THEN TRUE
    ELSE filter_pair(pair, domain, MaxChars)

\* the keys rejected_reasons can get
RejectReasons ==
    {"gt_too_short", "missing_response", "permission_garbage", "too_short",
     "no_code_blocks", "other"}

\* defaultdict(int)
NoRejections == [r \in RejectReasons |-> 0]

\* the chain of lines 385-398 with the test of the responses first
rejection_reason_responses_first(pair, domain_id) ==
    IF ~Truthy(pair.claude_response) \/ ~Truthy(pair.local_response)
    THEN "missing_response"
    ELSE IF is_ground_truth(pair) THEN "gt_too_short"
    ELSE IF is_permission_garbage(pair.claude_response) THEN "permission_garbage"
    ELSE IF domain_id = "coding" /\ pair.claude_response.len < 500 THEN "too_short"
    ELSE IF domain_id = "coding" /\ ~has_code_block(pair.claude_response)
    THEN "no_code_blocks"
    ELSE "other"

\* main, lines 385-398: the reason counted for a pair filter_pair rejected
rejection_reason(pair, domain_id) ==
    IF is_ground_truth(pair) THEN "gt_too_short"
    ELSE IF ~Truthy(pair.claude_response) \/ ~Truthy(pair.local_response)
    THEN "missing_response"
    ELSE IF is_permission_garbage(pair.claude_response) THEN "permission_garbage"
    ELSE IF domain_id = "coding" /\ pair.claude_response.len < 500 THEN "too_short"
    ELSE IF domain_id = "coding" /\ ~has_code_block(pair.claude_response)
    THEN "no_code_blocks"
    ELSE "other"

\* main, lines 377-398: the counts after the loop over type_filtered
RECURSIVE count_rejections(_, _)
count_rejections(pairs, domain) ==
    IF pairs = <<>> THEN NoRejections
    ELSE LET p == pairs[Len(pairs)]
             counts == count_rejections(SubSeq(pairs, 1, Len(pairs) - 1), domain)
         IN  IF quality_keep(p, domain) THEN counts
             ELSE [counts EXCEPT ![rejection_reason(p, domain.id)] = @ + 1]

\* main, lines 407-415: the loop over `filtered` with the set `seen`
RECURSIVE dedup_loop(_, _, _)
dedup_loop(rest, seen, deduped) ==
    IF rest = <<>> THEN deduped
    ELSE LET h == prompt_hash(Head(rest).prompt)
         IN  IF h \notin seen
             THEN dedup_loop(Tail(rest), seen \cup {h}, Append(deduped, Head(rest)))
             ELSE dedup_loop(Tail(rest), seen, deduped)

\* the loop with deduped.insert(0, p) in place of deduped.append(p)
deduplicate_prepending(filtered) ==
    LET kept == dedup_loop(filtered, {}, <<>>)
    IN  [i \in 1..Len(kept) |-> kept[Len(kept) + 1 - i]]

deduplicate(filtered) == dedup_loop(filtered, {}, <<>>)

to_chat_format(pair, system_prompt) ==
    LET gold == IF pair.type \in {"self_iterate", "tool_trace"}
                THEN [wrapped |-> FALSE, text |-> pair.gold_response]
                ELSE IF is_ground_truth(pair)
                THEN [wrapped |-> TRUE, text |-> pair.ground_truth_diff]
                ELSE [wrapped |-> FALSE, text |-> pair.claude_response]
    IN  [system |-> system_prompt, user |-> pair.prompt, assistant |-> gold]

\* random.seed(42); random.shuffle(x) on a list of n elements: the index in x
\* of the element that ends at each position (CPython's Mersenne Twister)
Shuffle42(n) ==
    CASE n = 0 -> <<>>
      [] n = 1 -> <<1>>
      [] n = 2 -> <<2, 1>>
      [] n = 3 -> <<2, 1, 3>>
      [] n = 4 -> <<3, 2, 4, 1>>
      [] n = 5 -> <<4, 2, 3, 5, 1>>
      [] n = 6 -> <<4, 2, 3, 5, 1, 6>>
      [] n = 7 -> <<2, 4, 5, 3, 7, 1, 6>>

shuffle(examples) ==
    LET perm == Shuffle42(Len(examples))
    IN  [i \in 1..Len(examples) |-> examples[perm[i]]]

\* split_idx = int(len(examples) * split_ratio), the ratio being num/den
split_idx(n, ratio) == PyInt(n * ratio.num, ratio.den)

\* the split without lines 434-435
split_without_move(examples, ratio) ==
    LET idx == split_idx(Len(examples), ratio)
    IN  [train |-> PySliceTo(examples, idx), valid |-> PySliceFrom(examples, idx)]

\* the split with valid = [train[-1]] in place of valid = [train.pop()]
split_with_copy(examples, ratio) ==
    LET idx == split_idx(Len(examples), ratio)
        train == PySliceTo(examples, idx)
        valid == PySliceFrom(examples, idx)
    IN  IF Len(valid) = 0 /\ Len(train) > 1
        THEN [train |-> train, valid |-> <<train[Len(train)]>>]
        ELSE [train |-> train, valid |-> valid]

\* lines 431-435: the slices, and the move of one record to validation
split(examples, ratio) ==
    LET idx == split_idx(Len(examples), ratio)
        train == PySliceTo(examples, idx)
        valid == PySliceFrom(examples, idx)
    IN  IF Len(valid) = 0 /\ Len(train) > 1
        THEN [train |-> SubSeq(train, 1, Len(train) - 1),
              valid |-> <<train[Len(train)]>>]
        ELSE [train |-> train, valid |-> valid]

\* the check off by one
not_enough_pairs_off_by_one(n, min_pairs) == n + 1 < min_pairs

\* lines 417-419: the minimum-example check
not_enough_pairs(n, min_pairs) == n < min_pairs

\* a file of the data directory
AbsentFile == [exists |-> FALSE, lines |-> <<>>]
File(lines) == [exists |-> TRUE, lines |-> lines]

\* lines 448-454: test.jsonl is written when it does not exist or is empty
test_file_after(old_test, valid) ==
    IF ~old_test.exists \/ Len(old_test.lines) = 0
    THEN File(SubSeq(valid, 1, Min(5, Len(valid))))
    ELSE old_test

\* ------------------------------------------------------------------------
\* prepare-data.py: the state of an invocation and of the data directories
\* ------------------------------------------------------------------------
\* An installation (TRAINER_DIR) holds one output directory per domain:
\* data/ for coding, data/<domain id>/ for the others.
Workspaces == {"w1", "w2"}
DataDirs == {"coding", "tools", "support"}

NoRun == [ran |-> FALSE]

VARIABLES
    pc,             \* where the current invocation of main() is
    ws,             \* the installation it runs in
    runs,           \* invocations started so far
    args,           \* its command line and the domain configuration it loaded
    accepted_types, \* lines 336-338
    all_data, type_filtered, filtered, deduped,
    rejected_reasons, \* lines 378-398: rejections of the quality filter, by reason
    train, valid,
    fs,             \* train.jsonl, valid.jsonl, test.jsonl per directory
    before,         \* history: fs when the current invocation started
    last_run        \* history: input and ratio of the last completed split

prep_vars == <<pc, ws, runs, args, accepted_types, all_data, type_filtered,
               filtered, rejected_reasons, deduped, train, valid, fs, before, last_run>>

\* the deduplication step applied on its own (lines 407-415)
VARIABLES
    d_pc,           \* "ready", "once" (applied), "twice" (applied to its output)
    d_in,           \* the records handed to the step
    d_out,          \* its output
    d_again         \* its output on d_out

dedup_vars == <<d_pc, d_in, d_out, d_again>>

\* evaluate.py: the results directory and the regression check
VARIABLES
    results_dir,    \* benchmarks/results/*.json
    clock,          \* int(time.time())
    run_log,        \* history: the persisted runs, in the order they ran
    check           \* the regression check of the last run

regress_vars == <<results_dir, clock, run_log, check>>

\* evaluate.py: the evaluation of one task
VARIABLES
    e_pc,           \* "ready", "called" (the model answered), "scored"
    e_domain,       \* DOMAIN["eval"]
    e_task,         \* the benchmark task
    e_response,     \* the response of the model
    e_result        \* the result record of evaluate_task

score_vars == <<e_pc, e_domain, e_task, e_response, e_result>>

\* evaluate.py: the test-case loop of score_correctness
VARIABLES
    t_pc,           \* "ready", "running" (in the loop), "returned"
    t_weight,       \* DOMAIN["eval"]["scoring"]["correctness"]["weight"]
    t_cases,        \* task["test_cases"]
    t_next,         \* index of the test case the loop is at
    t_passed,       \* passed
    t_log,          \* history: what became of each test case, in loop order
    t_score         \* the value returned

tests_vars == <<t_pc, t_weight, t_cases, t_next, t_passed, t_log, t_score>>

\* classify.py: one call of classify_prompt
VARIABLES
    c_pc,           \* "ready", "classified"
    c_raw,          \* hits of the prompt per pattern bank
    c_len,          \* len(prompt)
    c_fenced,       \* "```" in prompt
    c_tools,        \* the list passed as tools_used (empty for None)
    c_hints,        \* has_tool_calls, has_code, tools_used, response_length
    c_result        \* the dict returned

classify_vars == <<c_pc, c_raw, c_len, c_fenced, c_tools, c_hints, c_result>>

\* prepare-data.py: filter_pair under two settings of its thresholds
VARIABLES
    f_pc,           \* "ready", "filtered"
    f_pair,         \* the record
    f_domain,       \* the domain configuration
    f_stricter,     \* a larger minimum prompt length, a smaller max_chars
    f_kept,         \* filter_pair under the domain's thresholds
    f_kept_stricter \* filter_pair under the stricter ones

filter_vars == <<f_pc, f_pair, f_domain, f_stricter, f_kept, f_kept_stricter>>

\* the four loaders, each on one file
VARIABLES
    l_pc,           \* "ready", "loaded", "raised"
    l_loader,       \* "raw", "self_iterate", "tool", "benchmark"
    l_file,         \* the lines of the file
    l_out           \* the list returned

load_vars == <<l_pc, l_loader, l_file, l_out>>

\* evaluate.py: the task loop of a benchmark run
VARIABLES
    b_pc,           \* "ready", "looping", "done", "exited" (no tasks)
    b_domain,       \* DOMAIN["eval"]
    b_tasks,        \* the tasks load_benchmark returned
    b_next,         \* index of the task the loop is at
    b_results,      \* results
    b_calls,        \* history: model calls made, per task
    b_evaluated     \* tasks_evaluated of the result record

bench_vars == <<b_pc, b_domain, b_tasks, b_next, b_results, b_calls, b_evaluated>>

\* train.py: main from the Ollama check on
VARIABLES
    tr_pc,          \* "checking", "training", "trained", "exited"
    tr_ollama,      \* whether the Ollama service runs
    tr_was_running, \* ollama_was_running
    tr_attempt,     \* attempt
    tr_codes,       \* history: the exit code of every training subprocess
    tr_services,    \* history: the brew services commands issued
    tr_recorded,    \* history: the status of every _record_run call
    tr_db,          \* the status of the run in the forge DB ("none": no row)
    tr_exit         \* exit status of the script ("none" while it runs)

train_vars == <<tr_pc, tr_ollama, tr_was_running, tr_attempt, tr_codes,
                tr_services, tr_recorded, tr_db, tr_exit>>

\* domain_config.py: the domains directory
VARIABLES
    a_active,       \* domains/.active: its text, or Missing
    a_configs,      \* the ids that have a domains/<id>.json
    a_last,         \* history: the last call and what it did
    a_set,          \* history: the id of the last successful set_active_domain
    a_calls         \* history: calls made

active_vars == <<a_active, a_configs, a_last, a_set, a_calls>>

\* fuse-and-deploy.py: main after the fuse step
VARIABLES
    fu_pc,          \* "fused", "converted", "quantized", "deployed", "done", "exited"
    fu_args,        \* --skip-gguf, and whether the llama.cpp tools are installed
    fu_files,       \* which of fused_path, gguf_f16, gguf_quant exist
    fu_gguf_quant,  \* the local gguf_quant: "quant", or "f16" after the fallback
    fu_steps,       \* history: the steps that ran and how they ended
    fu_from,        \* history: the path of FROM in the Modelfile of the model created
    fu_removed      \* history: what the cleanup removed

fuse_vars == <<fu_pc, fu_args, fu_files, fu_gguf_quant, fu_steps, fu_from, fu_removed>>

ops_vars == <<train_vars, active_vars, fuse_vars>>

\* the variables of the steps modelled on their own, further down
more_vars == <<tests_vars, classify_vars, filter_vars, load_vars, bench_vars, ops_vars>>

earlier_vars == <<prep_vars, dedup_vars, regress_vars, score_vars, tests_vars,
                  classify_vars, filter_vars, load_vars, bench_vars>>

vars == <<prep_vars, dedup_vars, regress_vars, score_vars, more_vars>>

NoArgs == [min_pairs |-> 0, split_ratio |-> [num |-> 0, den |-> 1],
           domain |-> [id |-> ""], task_type |-> ""]

PrepInit ==
    /\ pc = "idle"
    /\ ws = "w1"
    /\ runs = 0
    /\ args = NoArgs
    /\ accepted_types = {}
    /\ all_data = <<>>
    /\ type_filtered = <<>>
    /\ filtered = <<>>
    /\ rejected_reasons = NoRejections
    /\ deduped = <<>>
    /\ train = <<>>
    /\ valid = <<>>
    /\ fs = [w \in Workspaces |-> [d \in DataDirs |->
                [train |-> AbsentFile, valid |-> AbsentFile, test |-> AbsentFile]]]
    /\ before = fs
    /\ last_run = [w \in Workspaces |-> [d \in DataDirs |-> NoRun]]

\* main, lines 300-359: arguments, domain, loading and merging; exit 1 when
\* nothing was loaded, a traceback when a loader raises
Load(w, input, a) ==
    /\ pc \in {"idle", "done", "failed", "crashed"}
    /\ LET min_response_length ==
               GetOr(a.domain.min_response_length, DefaultMinResponseLength)
           data == load_raw_pairs(input.raw)
                   \o load_self_iterate_traces(input.si, min_response_length)
                   \o load_tool_traces(input.tool, min_response_length)
       IN  IF loader_raises(input.raw) \/ loader_raises(input.si)
              \/ loader_raises(input.tool)
           THEN /\ all_data' = <<>>
                /\ pc' = "crashed"
           ELSE /\ all_data' = data
                /\ pc' = IF Len(data) = 0 THEN "failed" ELSE "loaded"
    /\ ws' = w
    /\ runs' = runs + 1
    /\ args' = a
    /\ accepted_types' = IF a.task_type # "" THEN {a.task_type}
                         ELSE a.domain.task_types
    /\ type_filtered' = <<>>
    /\ filtered' = <<>>
    /\ rejected_reasons' = NoRejections
    /\ deduped' = <<>>
    /\ train' = <<>>
    /\ valid' = <<>>
    /\ before' = fs
    /\ UNCHANGED <<fs, last_run>>
    /\ UNCHANGED <<dedup_vars, regress_vars, score_vars, more_vars>>

\* main, lines 361-419: classification of untagged pairs, task-type filter,
\* quality filter, deduplication; exit 1 below --min-pairs
Curate ==
    /\ pc = "loaded"
    /\ LET classified == [i \in 1..Len(all_data) |->
                            IF all_data[i].task_type = ""
                            THEN classify_pair(all_data[i]) ELSE all_data[i]]
           Matches(p) == pair_matches_domain(p, args.domain.id)
           Keeps(p) == quality_keep(p, args.domain)
           tf == SelectSeq(classified, Matches)
           f == SelectSeq(tf, Keeps)
           d == deduplicate(f)
       IN  /\ all_data' = classified
           /\ type_filtered' = tf
           /\ filtered' = f
           /\ rejected_reasons' = count_rejections(tf, args.domain)
           /\ deduped' = d
           /\ pc' = IF not_enough_pairs(Len(d), args.min_pairs)
                    THEN "failed" ELSE "curated"
    /\ UNCHANGED <<ws, runs, args, accepted_types, train, valid, fs, before, last_run>>
    /\ UNCHANGED <<dedup_vars, regress_vars, score_vars, more_vars>>

\* main, lines 421-460: conversion, shuffle, split and the three files
Assemble ==
    /\ pc = "curated"
    /\ LET examples == shuffle([i \in 1..Len(deduped) |->
                          to_chat_format(deduped[i], args.domain.system_prompt)])
           parts == split(examples, args.split_ratio)
           dir == args.domain.id
       IN  /\ train' = parts.train
           /\ valid' = parts.valid
           /\ fs' = [fs EXCEPT ![ws][dir] =
                       [train |-> File(parts.train),
                        valid |-> File(parts.valid),
                        test |-> test_file_after(fs[ws][dir].test, parts.valid)]]
    /\ last_run' = [last_run EXCEPT ![ws][args.domain.id] =
                       [ran |-> TRUE, deduped |-> deduped,
                        split_ratio |-> args.split_ratio,
                        system_prompt |-> args.domain.system_prompt]]
    /\ pc' = "done"
    /\ UNCHANGED <<ws, runs, args, accepted_types, all_data, type_filtered,
                   filtered, rejected_reasons, deduped, before>>
    /\ UNCHANGED <<dedup_vars, regress_vars, score_vars, more_vars>>

\* ------------------------------------------------------------------------
\* prepare-data.py: inputs
\* ------------------------------------------------------------------------
Dots(n) == [i \in 1..n |-> "."]

\* "Fix ...": 24 characters
P_fix == <<"F", "i", "x", " ">> \o Dots(20)
\* the same prompt in capitals, surrounded by blanks
P_fix_upper == <<" ", " ", "F", "I", "X", " ">> \o Dots(20) \o <<" ">>
\* 3 characters: below every minimum prompt length
P_short == <<"f", "i", "x">>
P_ab == <<"a", "b", " ">> \o Dots(20)
P_ba == <<"b", "a", " ">> \o Dots(20)
P_bb == <<"b", "b", " ">> \o Dots(20)
P_xa == <<"x", "a", " ">> \o Dots(20)
P_xb == <<"x", "b", " ">> \o Dots(20)

\* domain configurations (domains/<id>.json): the first leaves the data
\* thresholds to their defaults, the second sets its own
CodingDomain ==
    [id |-> "coding", task_types |-> {"coding"},
     min_prompt_length |-> Absent, min_response_length |-> Absent,
     system_prompt |-> "coding-system-prompt"]

ToolsDomain ==
    [id |-> "tools", task_types |-> {"tools", "coding"},
     min_prompt_length |-> Set(25), min_response_length |-> Set(40),
     system_prompt |-> "tools-system-prompt"]

\* a domain of the installation's own, whose id is not a task type
SupportDomain ==
    [id |-> "support", task_types |-> {"chat"},
     min_prompt_length |-> Absent, min_response_length |-> Absent,
     system_prompt |-> "support-system-prompt"]

Ratio(n, d) == [num |-> n, den |-> d]

Diff(n, marks) == [Text(n, 0) EXCEPT !.marks = marks]

CodeHit == [NoHits EXCEPT !["coding"] = 1]

\* lines of data/raw/*.jsonl
RawUniverse ==
    { [RawLine(Pair("", "", <<>>, NoText, NoText, NoText, NoText))
         EXCEPT !.kind = "malformed"],
      \* a tagged distillation pair that passes the coding thresholds
      RawLine(Pair("", "coding", P_fix, Text(600, 2), Text(100, 0), NoText, NoText)),
      \* an untagged one, whose prompt hits one coding rule
      RawLine([Pair("", "", P_ab, Text(600, 2), Text(80, 0), NoText, NoText)
                 EXCEPT !.hits = CodeHit]),
      \* a distillation pair with a prompt that is too short
      RawLine(Pair("", "coding", P_short, Text(600, 2), Text(100, 0), NoText, NoText)),
      \* a distillation pair over the length cap
      RawLine(Pair("", "coding", P_ba, Text(24000, 2), Text(100, 0), NoText, NoText)),
      \* ground-truth pairs: a good diff, and "+ added\n- removed"
      RawLine(Pair("ground_truth", "coding", P_bb, NoText, NoText, Diff(120, TRUE), NoText)),
      RawLine(Pair("ground_truth", "coding", P_xa, NoText, NoText, Diff(14, TRUE), NoText)),
      \* a distillation pair that its collector tagged with a domain id
      RawLine(Pair("", "support", P_xb, Text(600, 2), Text(100, 0), NoText, NoText)),
      \* a line cut inside a multi-byte character
      [RawLine(Pair("", "", <<>>, NoText, NoText, NoText, NoText))
         EXCEPT !.kind = "unreadable"] }

\* lines of data/traces/*-self-iterate.jsonl
SelfIterateUniverse ==
    { SelfIterateLine(TRUE, <<UserMsg(P_fix_upper), AssistantMsg(Text(60, 2))>>),
      SelfIterateLine(TRUE, <<UserMsg(P_short), AssistantMsg(Text(60, 2))>>),
      SelfIterateLine(TRUE, <<UserMsg(P_xb), AssistantMsg(Text(24000, 2))>>),
      SelfIterateLine(FALSE, <<UserMsg(P_ab), AssistantMsg(Text(60, 2))>>),
      SelfIterateLine(TRUE, <<UserMsg(P_ab), AssistantMsg(Text(45, 0))>>) }

\* lines of data/traces/*-tools.jsonl and *-agent.jsonl
ToolUniverse ==
    { ToolLine(P_fix, "tool_use",
               <<ToolMsg("user", NoText, <<>>), ToolMsg("assistant", Text(40, 0), <<10>>)>>),
      ToolLine(P_ba, "agent_loop",
               <<ToolMsg("user", NoText, <<>>), ToolMsg("assistant", Text(24000, 0), <<>>)>>),
      ToolLine(P_short, "tool_use",
               <<ToolMsg("user", NoText, <<>>), ToolMsg("assistant", Text(60, 0), <<>>)>>),
      ToolLine(P_ab, "chat",
               <<ToolMsg("user", NoText, <<>>), ToolMsg("assistant", Text(60, 0), <<>>)>>) }

SeqsUpTo(S, n) == UNION {[1..k -> S] : k \in 0..n}

\* the contents of the input files of one invocation: at most n lines
InputsUpTo(n) ==
    { [raw |-> r, si |-> s, tool |-> t] :
        <<r, s, t>> \in { x \in SeqsUpTo(RawUniverse, n) \X SeqsUpTo(SelfIterateUniverse, n)
                                \X SeqsUpTo(ToolUniverse, n) :
                           Len(x[1]) + Len(x[2]) + Len(x[3]) <= n } }

ArgsUniverse ==
    [min_pairs : {1, 2}, split_ratio : {Ratio(9, 10), Ratio(1, 1)},
     domain : {CodingDomain, ToolsDomain, SupportDomain}, task_type : {"", "chat"}]

\* lines of data/raw/*.jsonl written by the ground-truth collector: diffs
\* around the floor of 100 characters with and without a "+" or "-", one
\* with a short prompt, one whose diff is empty, and two distillation pairs
MaxGroundTruthLines == 2

GroundTruthUniverse ==
    { RawLine(Pair("ground_truth", "coding", P_bb, NoText, NoText, Diff(n, m), NoText)) :
        n \in {14, 99, 100, 120}, m \in BOOLEAN }
    \cup
    { RawLine(Pair("ground_truth", "coding", P_short, NoText, NoText, Diff(120, TRUE), NoText)),
      RawLine(Pair("ground_truth", "coding", P_xa, NoText, NoText, NoText, NoText)),
      RawLine(Pair("", "coding", P_fix, Text(600, 2), Text(100, 0), NoText, NoText)),
      RawLine(Pair("", "coding", P_ab, Text(600, 2), NoText, NoText, NoText)) }

GroundTruthArgs ==
    [min_pairs : {1}, split_ratio : {Ratio(9, 10)},
     domain : {CodingDomain, ToolsDomain}, task_type : {""}]

\* inputs of the repeated invocations: self-iterate files
SiGood(prompt) == SelfIterateLine(TRUE, <<UserMsg(prompt), AssistantMsg(Text(60, 2))>>)

SiFile(prompts) == [raw |-> <<>>, tool |-> <<>>,
                    si |-> [i \in 1..Len(prompts) |-> SiGood(prompts[i])]]

RunInputs ==
    { SiFile(<<>>), SiFile(<<P_fix>>), SiFile(<<P_ab, P_ba>>),
      SiFile(<<P_ab, P_ba, P_bb, P_xa, P_xb, P_fix>>),
      \* the second prompt is the first one in capitals
      SiFile(<<P_fix, P_fix_upper, P_ab, P_ba>>) }

RunArgs ==
    [min_pairs : {1, 3},
     split_ratio : {Ratio(0, 1), Ratio(1, 2), Ratio(1, 1), Ratio(-1, 2)},
     domain : {CodingDomain}, task_type : {""}]

TwinInputs == { SiFile(<<P_fix>>), SiFile(<<P_ab, P_ba>>) }

TwinArgs ==
    [min_pairs : {1}, split_ratio : {Ratio(1, 2)},
     domain : {CodingDomain}, task_type : {""}]

\* ------------------------------------------------------------------------
\* The deduplication step on its own
\* ------------------------------------------------------------------------
\* the number of records handed to the step
MaxDedup == 3

\* prompts: a word, possibly between blanks; the empty and the blank prompt
DedupWords == {<<"a">>, <<"A">>, <<"b">>}
DedupBlanks == {<<>>, <<" ">>}
DedupPrompts ==
    {l \o w \o r : l \in DedupBlanks, w \in DedupWords, r \in DedupBlanks}
    \cup {<<>>, <<" ">>}

\* the records of `filtered`: deduplication reads their prompt only; id is
\* their position
DedupInputs ==
    UNION { { [i \in 1..n |-> [id |-> i, prompt |-> ps[i]]] : ps \in [1..n -> DedupPrompts] }
            : n \in 0..MaxDedup }

DedupIdle == d_pc = "off" /\ d_in = <<>> /\ d_out = <<>> /\ d_again = <<>>

DedupInit == d_pc = "ready" /\ d_in \in DedupInputs /\ d_out = <<>> /\ d_again = <<>>

DedupOnce ==
    /\ d_pc = "ready"
    /\ d_out' = deduplicate(d_in)
    /\ d_pc' = "once"
    /\ UNCHANGED <<d_in, d_again>>
    /\ UNCHANGED <<prep_vars, regress_vars, score_vars, more_vars>>

DedupAgain ==
    /\ d_pc = "once"
    /\ d_again' = deduplicate(d_out)
    /\ d_pc' = "twice"
    /\ UNCHANGED <<d_in, d_out>>
    /\ UNCHANGED <<prep_vars, regress_vars, score_vars, more_vars>>

\* ------------------------------------------------------------------------
\* evaluate.py: persisting a run and the regression check (main, 357-417)
\* ------------------------------------------------------------------------
\* the number of benchmark runs of one behaviour
MaxEvalRuns == 3

\* ord() of the characters of the file names
OrdOf(c) ==
    CASE c = "-" -> 45 [] c = "0" -> 48 [] c = "1" -> 49 [] c = "2" -> 50
      [] c = "3" -> 51 [] c = "4" -> 52 [] c = "5" -> 53 [] c = "6" -> 54
      [] c = "7" -> 55 [] c = "8" -> 56 [] c = "9" -> 57
      [] c = "a" -> 97 [] c = "e" -> 101 [] c = "l" -> 108 [] c = "s" -> 115
      [] c = "t" -> 116 [] c = "v" -> 118

\* a < b for two strings, as Python compares them
RECURSIVE StrLess(_, _)
StrLess(a, b) ==
    IF a = <<>> THEN b # <<>>
    ELSE IF b = <<>> THEN FALSE
    ELSE IF OrdOf(Head(a)) # OrdOf(Head(b)) THEN OrdOf(Head(a)) < OrdOf(Head(b))
    ELSE StrLess(Tail(a), Tail(b))

\* --version: None, "latest" or a label
NoVersion == <<>>
Latest == <<"l", "a", "t", "e", "s", "t">>
V2 == <<"v", "2">>
V10 == <<"v", "1", "0">>

\* int(time.time()) in the file name: the time stamps of the runs have the
\* same number of digits; the model's have one
Digits == <<"1", "2", "3", "4", "5", "6", "7", "8", "9">>

result_file_name(version, now) == version \o <<"-">> \o <<Digits[now]>>

\* Scores are in thousandths of a point.  round(x, 2):
round2(x) ==
    LET q == x \div 10
        r == x % 10
    IN  10 * (IF r < 5 THEN q
              ELSE IF r > 5 THEN q + 1
              ELSE IF q % 2 = 0 THEN q ELSE q + 1)

\* sorted(RESULTS_DIR.glob("*.json")): the files in the order of their names
sorted_results(dir) ==
    LET Rank(f) == 1 + Cardinality({g \in dir : StrLess(g.name, f.name)})
    IN  [k \in 1..Cardinality(dir) |-> CHOOSE f \in dir : Rank(f) = k]

RegressionDrop == 5

NoCheck == [done |-> FALSE, prev |-> <<>>, avg_total |-> 0, delta |-> 0,
            flag |-> "none"]

\* lines 402-417
regression_check(version_arg, avg_total, dir) ==
    IF version_arg # NoVersion /\ version_arg # Latest /\ Cardinality(dir) > 1
    THEN LET prev_results == sorted_results(dir)
             prev_data == prev_results[Len(prev_results) - 1]
             delta == avg_total - prev_data.overall_score
         IN  [done |-> TRUE, prev |-> prev_data.name, avg_total |-> avg_total,
              delta |-> delta,
              flag |-> IF delta < -(RegressionDrop * 1000) THEN "regression"
                       ELSE IF delta > 0 THEN "improvement" ELSE "none"]
    ELSE [NoCheck EXCEPT !.avg_total = avg_total]

RegressInit ==
    /\ results_dir = {}
    /\ clock = 1
    /\ run_log = <<>>
    /\ check = NoCheck

\* one benchmark run that scored avg_total: the result file is written, then
\* the check reads the directory
EvalRun(version_arg, domain_id, avg_total) ==
    /\ Len(run_log) < MaxEvalRuns
    /\ LET version == IF version_arg = NoVersion THEN Latest ELSE version_arg
           result_file == [name |-> result_file_name(version, clock),
                           version |-> version, domain |-> domain_id,
                           overall_score |-> round2(avg_total)]
           dir == {f \in results_dir : f.name # result_file.name} \cup {result_file}
       IN  /\ results_dir' = dir
           /\ run_log' = Append(run_log, result_file)
           /\ check' = regression_check(version_arg, avg_total, dir)
    /\ clock' = clock + 1
    /\ UNCHANGED <<prep_vars, dedup_vars, score_vars, more_vars>>

EvalVersions == {NoVersion, Latest, V2, V10}
EvalDomains == {"coding", "reasoning"}
\* 75.0 and 82.004 points
EvalScores == {75000, 82004}

\* ------------------------------------------------------------------------
\* evaluate.py: the four sub-scores and evaluate_task
\* ------------------------------------------------------------------------
\* A response is abstracted to what the scorers read from it:
\*   len           len(response)
\*   blocks        extract_code_blocks(response) is not empty
\*   code_len      len("\n".join(blocks)); code_stripped, of its strip()
\*   loose_kw      response.lower() contains "def ", "function ", "class ",
\*                 "const " or "let "
\*   def_marker    the code has the definition marker of the task's language
\*   ret_marker    the code has its return (or print) marker
\*   markers       the response contains "##", "**", "\n\n", "1." or "- "
\*   keywords      number of the domain's keyword_checks found in it
\*   requirements  number of the task's requirements found in it
\*   ratio         SequenceMatcher(None, response_code, gold_code).ratio()
\* A task: its language, its test cases (whether each has code and a truthy
\* expected value), the number of its requirements, whether it has a gold
\* answer.

\* int(w * num / den) for a weight w and a fraction num/den >= 0.  For the
\* weights and counts of EvalConfigs and BenchTasks the double-precision
\* products of the scorers have this integer part.
Scaled(w, num, den) == (w * num) \div den

\* int((passed / total) * max_weight) is computed in double precision:
\* passed / total is rounded, then the product.  For these triples
\* <<max_weight, passed, total>> the exact product is an integer and the
\* rounded one lies just below it (CPython, every weight up to 100 and every
\* total up to 16); for all others of that range the integer part is that of
\* the exact product.
FloatRoundsBelow ==
    {<<55, 3, 11>>, <<55, 6, 11>>, <<75, 11, 15>>, <<90, 7, 10>>,
     <<99, 3, 11>>, <<99, 6, 11>>}

ExactPassRateScore(passed, total, max_weight) == (passed * max_weight) \div total

PassRateScore(passed, total, max_weight) ==
    ExactPassRateScore(passed, total, max_weight)
    - (IF <<max_weight, passed, total>> \in FloatRoundsBelow THEN 1 ELSE 0)

score_structure(response, task, domain) ==
    LET max_weight == domain.weight.structure
    IN  IF domain.has_executable_tests
        THEN IF ~response.blocks
             THEN (IF response.loose_kw THEN Scaled(max_weight, 2, 10) ELSE 0)
             ELSE LET base == Scaled(max_weight, 6, 10)
                      score ==
                        IF task.language \in {"python", "javascript", "typescript"}
                        THEN base
                             + (IF response.def_marker THEN Scaled(max_weight, 2, 10) ELSE 0)
                             + (IF response.ret_marker THEN Scaled(max_weight, 2, 10) ELSE 0)
                        ELSE base
                             + (IF response.code_stripped > 20
                                THEN Scaled(max_weight, 4, 10) ELSE 0)
                  IN  Min(score, max_weight)
        ELSE LET score ==
                   (IF response.len > 500 THEN Scaled(max_weight, 3, 10)
                    ELSE IF response.len > 200 THEN Scaled(max_weight, 2, 10) ELSE 0)
                   + (IF response.markers THEN Scaled(max_weight, 3, 10) ELSE 0)
                   + (IF domain.keywords > 0
                      THEN Scaled(max_weight, 4 * Min(response.keywords, domain.keywords),
                                  10 * domain.keywords)
                      ELSE 0)
             IN  Min(score, max_weight)

test_passed_unless_timeout(tc, outcome) == outcome # "timeout"

\* whether a test case counts as passed, from what its subprocess did:
\* "exit0_match" (exit code 0, stdout equal to the expected value),
\* "exit0_other" (exit code 0, another stdout), "nonzero", "timeout",
\* "raised" (subprocess.run raised another exception)
test_passed(tc, outcome) ==
    /\ outcome \in {"exit0_match", "exit0_other"}
    /\ IF tc.expected THEN outcome = "exit0_match" ELSE TRUE

score_correctness(response, task, domain, outcomes) ==
    LET max_weight == domain.weight.correctness
    IN  IF domain.has_executable_tests
        THEN IF task.test_cases = <<>>
             THEN (IF response.blocks /\ response.code_len > 50
                   THEN Scaled(max_weight, 625, 1000)
                   ELSE Scaled(max_weight, 25, 100))
             ELSE IF ~response.blocks THEN 0
             ELSE LET total == Len(task.test_cases)
                      passed == Cardinality({i \in 1..total :
                                    /\ task.test_cases[i].has_code
                                    /\ test_passed(task.test_cases[i], outcomes[i])})
                  IN  PassRateScore(passed, total, max_weight)
        ELSE LET score ==
                   (IF response.len > 300 THEN Scaled(max_weight, 4, 10)
                    ELSE IF response.len > 100 THEN Scaled(max_weight, 2, 10) ELSE 0)
                   + (IF task.requirements > 0
                      THEN Scaled(max_weight, 6 * Min(response.requirements, task.requirements),
                                  10 * task.requirements)
                      ELSE Scaled(max_weight, 3, 10))
             IN  Min(score, max_weight)

score_similarity(response, task) ==
    IF ~task.has_gold THEN 10
    ELSE IF ~response.blocks THEN 0
    ELSE Scaled(20, response.ratio.num, response.ratio.den)

score_completeness(response, task) ==
    IF task.requirements = 0
    THEN (IF response.len > 200 /\ response.blocks THEN 12
          ELSE IF response.len > 100 THEN 8 ELSE 5)
    ELSE PassRateScore(Min(response.requirements, task.requirements),
                       task.requirements, 15)

evaluate_task(response, task, domain, outcomes) ==
    LET structure == score_structure(response, task, domain)
        correctness == score_correctness(response, task, domain, outcomes)
        similarity == score_similarity(response, task)
        completeness == score_completeness(response, task)
    IN  [total_score |-> structure + correctness + similarity + completeness,
         structure_score |-> structure,
         correctness_score |-> correctness,
         similarity_score |-> similarity,
         completeness_score |-> completeness,
         response_length |-> response.len,
         has_code |-> response.blocks]

\* DOMAIN["eval"] of two domain configurations: the default weights with
\* executable tests, and a domain without tests that sets its own weights
CodingEval ==
    [has_executable_tests |-> TRUE, keywords |-> 0,
     weight |-> [structure |-> 25, correctness |-> 40, similarity |-> 20,
                 completeness |-> 15]]

ReasoningEval ==
    [has_executable_tests |-> FALSE, keywords |-> 2,
     weight |-> [structure |-> 30, correctness |-> 50, similarity |-> 10,
                 completeness |-> 10]]

EvalConfigs == {CodingEval, ReasoningEval}

\* a test case: `expected` is the truth value Python gives tc["expected"],
\* `given` whether the task gives an expected value at all
TestCase(has_code, expected) ==
    [has_code |-> has_code, expected |-> expected, given |-> expected]

\* a test case whose expected value is 0, False or another value that
\* Python takes for false
FalsyExpected == [has_code |-> TRUE, expected |-> FALSE, given |-> TRUE]

BenchTasks ==
    [language : {"python", "go"},
     test_cases : {<<>>, <<TestCase(TRUE, TRUE), TestCase(TRUE, FALSE)>>},
     requirements : {0, 2},
     has_gold : BOOLEAN]

\* no code block, or a block of 15 or of 60 characters with its markers
CodeShapes ==
    [blocks : {FALSE}, code_len : {0}, code_stripped : {0}, loose_kw : BOOLEAN,
     def_marker : {FALSE}, ret_marker : {FALSE}]
    \cup { [blocks |-> TRUE, code_len |-> n, code_stripped |-> n - 1, loose_kw |-> d,
            def_marker |-> d, ret_marker |-> r] :
           n \in {15, 60}, d \in BOOLEAN, r \in BOOLEAN }

Responses ==
    { [len |-> n, blocks |-> c.blocks, code_len |-> c.code_len,
       code_stripped |-> c.code_stripped, loose_kw |-> c.loose_kw,
       def_marker |-> c.def_marker, ret_marker |-> c.ret_marker,
       markers |-> m, keywords |-> k, requirements |-> k, ratio |-> q] :
      n \in {80, 250, 600}, c \in CodeShapes, m \in BOOLEAN, k \in {0, 1, 2},
      q \in {Ratio(1, 2), Ratio(1, 1)} }

TestOutcomes == {"exit0_match", "exit0_other", "nonzero", "timeout", "raised"}

NoResponse == "none"
NoResult == "none"

ScoreIdle ==
    /\ e_pc = "off"
    /\ e_domain = CodingEval
    /\ e_task = "none"
    /\ e_response = NoResponse
    /\ e_result = NoResult

ScoreInit ==
    /\ e_pc = "ready"
    /\ e_domain \in EvalConfigs
    /\ e_task \in BenchTasks
    /\ e_response = NoResponse
    /\ e_result = NoResult

\* evaluate_task, lines 257-260: the model is called
CallOllama(response) ==
    /\ e_pc = "ready"
    /\ e_response' = response
    /\ e_pc' = "called"
    /\ UNCHANGED <<e_domain, e_task, e_result>>
    /\ UNCHANGED <<prep_vars, dedup_vars, regress_vars, more_vars>>

\* evaluate_task, lines 262-279: the scorers run (the test cases with them)
ScoreTask(outcomes) ==
    /\ e_pc = "called"
    /\ e_result' = evaluate_task(e_response, e_task, e_domain, outcomes)
    /\ e_pc' = "scored"
    /\ UNCHANGED <<e_domain, e_task, e_response>>
    /\ UNCHANGED <<prep_vars, dedup_vars, regress_vars, more_vars>>

\* ------------------------------------------------------------------------
\* evaluate.py: score_correctness, the test cases one by one
\* ------------------------------------------------------------------------
MaxTests == 10
\* up to this many test cases every outcome is tried for each
MaxDetailedTests == 3

Suite(n) == [k \in 1..n |-> TestCase(TRUE, TRUE)]

\* tasks with test cases: n cases that print an expected value, and two
\* suites with a case without code and a case without an expected value
TestSuites ==
    {Suite(n) : n \in 1..MaxTests}
    \cup {<<TestCase(FALSE, TRUE), TestCase(TRUE, FALSE)>>,
          <<TestCase(TRUE, FALSE), TestCase(TRUE, TRUE), TestCase(FALSE, FALSE)>>,
          <<FalsyExpected, TestCase(TRUE, TRUE)>>}

TestWeights == {40, 90}

OutcomesFor(cases) ==
    IF Len(cases) <= MaxDetailedTests THEN TestOutcomes
    ELSE {"exit0_match", "nonzero"}

TestsIdle ==
    /\ t_pc = "off"
    /\ t_weight = 40
    /\ t_cases = <<>>
    /\ t_next = 1
    /\ t_passed = 0
    /\ t_log = <<>>
    /\ t_score = 0

\* lines 146-162: a domain with executable tests, a task with test cases, a
\* response with a code block
TestsInit ==
    /\ t_pc = "running"
    /\ t_weight \in TestWeights
    /\ t_cases \in TestSuites
    /\ t_next = 1
    /\ t_passed = 0
    /\ t_log = <<>>
    /\ t_score = 0

\* lines 165-186: one iteration of the loop
RunTest(outcome) ==
    /\ t_pc = "running"
    /\ t_next <= Len(t_cases)
    /\ LET tc == t_cases[t_next]
       IN  IF ~tc.has_code
           THEN /\ t_log' = Append(t_log, "no_code")
                /\ UNCHANGED t_passed
           ELSE /\ t_log' = Append(t_log, outcome)
                /\ t_passed' = IF test_passed(tc, outcome) THEN t_passed + 1
                               ELSE t_passed
    /\ t_next' = t_next + 1
    /\ UNCHANGED <<t_pc, t_weight, t_cases, t_score>>
    /\ UNCHANGED <<prep_vars, dedup_vars, regress_vars, score_vars, classify_vars, filter_vars, load_vars, bench_vars, ops_vars>>

\* lines 188-190: the loop is over
ReturnScore ==
    /\ t_pc = "running"
    /\ t_next > Len(t_cases)
    /\ t_score' = PassRateScore(t_passed, Len(t_cases), t_weight)
    /\ t_pc' = "returned"
    /\ UNCHANGED <<t_weight, t_cases, t_next, t_passed, t_log>>
    /\ UNCHANGED <<prep_vars, dedup_vars, regress_vars, score_vars, classify_vars, filter_vars, load_vars, bench_vars, ops_vars>>

\* ------------------------------------------------------------------------
\* classify.py: classify_prompt on its own
\* ------------------------------------------------------------------------
MaxHits == 2

NoHints == [has_tool_calls |-> FALSE, has_code |-> FALSE, tools_used |-> 0,
            response_length |-> 0]

HitCounts == [{"coding", "reasoning", "tools", "chat"} -> 0..MaxHits]

\* prompts of 10, 40 and 80 characters; up to four tools used; a response of
\* 0 (or None) and of 3000 characters
PromptLengths == {10, 40, 80}

HintsUniverse ==
    [has_tool_calls : BOOLEAN, has_code : BOOLEAN, tools_used : 0..4,
     response_length : {0, 3000}]

\* tools_used: no list, and lists of one to four names with and without
\* repeated names
ToolLists ==
    { <<>>, <<"read">>, <<"read", "read">>, <<"read", "bash">>,
      <<"read", "read", "read">>, <<"read", "bash", "grep">>,
      <<"read", "bash", "read", "bash">>, <<"read", "bash", "grep", "edit">> }

ClassifyIdle ==
    /\ c_pc = "off"
    /\ c_raw = NoHits
    /\ c_len = 0
    /\ c_fenced = FALSE
    /\ c_tools = <<>>
    /\ c_hints = NoHints
    /\ c_result = [type |-> "", scores |-> NoHits, confidence |-> 0]

ClassifyInit ==
    /\ c_pc = "ready"
    /\ c_raw \in HitCounts
    /\ c_len \in PromptLengths
    /\ c_fenced \in BOOLEAN
    /\ c_tools \in ToolLists
    /\ c_hints \in {h \in HintsUniverse : h.tools_used = Len(c_tools)}
    /\ c_result = [type |-> "", scores |-> NoHits, confidence |-> 0]

ClassifyPrompt ==
    /\ c_pc = "ready"
    /\ c_result' = classify_prompt(c_raw, c_len, c_fenced, c_hints)
    /\ c_pc' = "classified"
    /\ UNCHANGED <<c_raw, c_len, c_fenced, c_tools, c_hints>>
    /\ UNCHANGED <<prep_vars, dedup_vars, regress_vars, score_vars, tests_vars, filter_vars, load_vars, bench_vars, ops_vars>>

\* ------------------------------------------------------------------------
\* prepare-data.py: filter_pair on its own
\* ------------------------------------------------------------------------
\* how far the stricter thresholds are from the domain's
MaxTighten == 3

Garbage(n) == [Text(n, 2) EXCEPT !.garbage = 3]

\* prompts of 3, 20, 22 and 26 characters; responses below and above the
\* domain minimums, at the cap, and a refusal to act
FilterPairs ==
    { Pair(ty, "coding", Dots(n), claude, local, diff, NoText) :
        ty \in {"", "ground_truth"}, n \in {3, 20, 22, 26},
        claude \in {NoText, Text(150, 0), Text(600, 2), Text(23978, 2), Garbage(600)},
        local \in {NoText, Text(100, 0)},
        diff \in {NoText, Diff(120, TRUE), Diff(120, FALSE)} }

FilterDomains ==
    { [id |-> d, task_types |-> {d}, min_prompt_length |-> m,
       min_response_length |-> Absent, system_prompt |-> ""] :
        d \in {"coding", "reasoning", "tools", "chat", "medical"},
        m \in {Absent, Set(22)} }

FilterIdle ==
    /\ f_pc = "off"
    /\ f_pair = Pair("", "", <<>>, NoText, NoText, NoText, NoText)
    /\ f_domain = CodingDomain
    /\ f_stricter = [min_prompt_length |-> DefaultMinPromptLength, max_chars |-> MaxChars]
    /\ f_kept = FALSE
    /\ f_kept_stricter = FALSE

FilterInit ==
    /\ f_pc = "ready"
    /\ f_pair \in FilterPairs
    /\ f_domain \in FilterDomains
    /\ \E up \in 1..MaxTighten, down \in 1..MaxTighten :
          f_stricter =
            [min_prompt_length |->
               GetOr(f_domain.min_prompt_length, DefaultMinPromptLength) + up,
             max_chars |-> MaxChars - down]
    /\ f_kept = FALSE
    /\ f_kept_stricter = FALSE

FilterTwice ==
    /\ f_pc = "ready"
    /\ f_kept' = filter_pair(f_pair, f_domain, MaxChars)
    /\ f_kept_stricter' =
          filter_pair(f_pair,
                      [f_domain EXCEPT !.min_prompt_length = Set(f_stricter.min_prompt_length)],
                      f_stricter.max_chars)
    /\ f_pc' = "filtered"
    /\ UNCHANGED <<f_pair, f_domain, f_stricter>>
    /\ UNCHANGED <<prep_vars, dedup_vars, regress_vars, score_vars, tests_vars, classify_vars, load_vars, bench_vars, ops_vars>>

\* ------------------------------------------------------------------------
\* the loaders of prepare-data.py and evaluate.py, each on one file
\* ------------------------------------------------------------------------
MaxFileLines == 3

\* evaluate.py, load_benchmark: the tasks of the JSON lines, in file order
load_benchmark(file) ==
    LET Parsed(line) == line.kind = "object"
        kept == SelectSeq(file, Parsed)
    IN  [i \in 1..Len(kept) |-> kept[i].obj]

BenchLine(task) == [kind |-> "object", obj |-> task]

\* a line of each kind that is not an object, in the shape of a line u
Broken(u, kind) == [u EXCEPT !.kind = kind]

LinesOf(loader) ==
    LET objects ==
          CASE loader = "raw" ->
                 {RawLine(Pair("", "coding", p, Text(600, 2), Text(100, 0), NoText, NoText)) :
                    p \in {P_ab, P_ba}}
            [] loader = "self_iterate" ->
                 {SiGood(P_ab), SelfIterateLine(FALSE, <<UserMsg(P_ba), AssistantMsg(Text(60, 2))>>)}
            [] loader = "tool" ->
                 {ToolLine(p, "tool_use",
                           <<ToolMsg("user", NoText, <<>>),
                             ToolMsg("assistant", Text(60, 0), <<>>)>>) : p \in {P_ab, P_ba}}
            [] loader = "benchmark" ->
                 {BenchLine([language |-> l, test_cases |-> <<>>, requirements |-> 0,
                             has_gold |-> FALSE]) : l \in {"python", "go"}}
        any == CHOOSE u \in objects : TRUE
    IN  objects \cup {Broken(any, k) : k \in NonJsonKinds}

Loaders == {"raw", "self_iterate", "tool", "benchmark"}

Loaded(loader, file) ==
    CASE loader = "raw" -> load_raw_pairs(file)
      [] loader = "self_iterate" -> load_self_iterate_traces(file, DefaultMinResponseLength)
      [] loader = "tool" -> load_tool_traces(file, DefaultMinResponseLength)
      [] loader = "benchmark" -> load_benchmark(file)

LoadIdle ==
    /\ l_pc = "off"
    /\ l_loader = "raw"
    /\ l_file = <<>>
    /\ l_out = <<>>

LoadInit ==
    /\ l_pc = "ready"
    /\ l_loader \in Loaders
    /\ l_file \in SeqsUpTo(LinesOf(l_loader), MaxFileLines)
    /\ l_out = <<>>

\* the loop over the lines returns
LoadFile ==
    /\ l_pc = "ready"
    /\ ~loader_raises(l_file)
    /\ l_out' = Loaded(l_loader, l_file)
    /\ l_pc' = "loaded"
    /\ UNCHANGED <<l_loader, l_file>>
    /\ UNCHANGED <<prep_vars, dedup_vars, regress_vars, score_vars>>
    /\ UNCHANGED <<tests_vars, classify_vars, filter_vars, bench_vars, ops_vars>>

\* an exception other than JSONDecodeError leaves the loader
LoadRaises ==
    /\ l_pc = "ready"
    /\ loader_raises(l_file)
    /\ l_pc' = "raised"
    /\ UNCHANGED <<l_loader, l_file, l_out>>
    /\ UNCHANGED <<prep_vars, dedup_vars, regress_vars, score_vars>>
    /\ UNCHANGED <<tests_vars, classify_vars, filter_vars, bench_vars, ops_vars>>

\* ------------------------------------------------------------------------
\* evaluate.py: main, the loop over the tasks
\* ------------------------------------------------------------------------
MaxTasks == 3

\* call_ollama: the content of the reply, or "ERROR: <exception>" when the
\* request raised; the error text has no code block and none of the markers
ErrorResponse ==
    [len |-> 40, blocks |-> FALSE, code_len |-> 0, code_stripped |-> 0,
     loose_kw |-> FALSE, def_marker |-> FALSE, ret_marker |-> FALSE,
     markers |-> FALSE, keywords |-> 0, requirements |-> 0, ratio |-> Ratio(0, 1)]

CodeResponse ==
    [len |-> 250, blocks |-> TRUE, code_len |-> 60, code_stripped |-> 59,
     loose_kw |-> TRUE, def_marker |-> TRUE, ret_marker |-> TRUE,
     markers |-> TRUE, keywords |-> 1, requirements |-> 1, ratio |-> Ratio(1, 2)]

call_ollama(reply) == IF reply = "raised" THEN ErrorResponse ELSE CodeResponse

Replies == {"answered", "raised"}

\* the tasks of the benchmark file: without and with test cases
TaskKinds ==
    {[language |-> "python", test_cases |-> tc, requirements |-> 0, has_gold |-> FALSE] :
        tc \in {<<>>, <<TestCase(TRUE, TRUE), TestCase(TRUE, FALSE)>>}}

BenchOutcomes == {"exit0_match", "nonzero", "timeout"}

results_without_failed_calls(results, task_id, response, result) ==
    IF response = ErrorResponse THEN results
    ELSE Append(results, [task_id |-> task_id, result |-> result])

\* lines 319-320: result = evaluate_task(task, model); results.append(result)
results_after(results, task_id, response, result) ==
    Append(results, [task_id |-> task_id, result |-> result])

BenchIdle ==
    /\ b_pc = "off"
    /\ b_domain = CodingEval
    /\ b_tasks = <<>>
    /\ b_next = 1
    /\ b_results = <<>>
    /\ b_calls = <<>>
    /\ b_evaluated = 0

\* lines 305-308: the tasks are loaded
BenchInit ==
    /\ b_pc = "ready"
    /\ b_domain \in EvalConfigs
    /\ \E kinds \in SeqsUpTo(TaskKinds, MaxTasks) :
          b_tasks = [k \in 1..Len(kinds) |-> [id |-> k, task |-> kinds[k]]]
    /\ b_next = 1
    /\ b_results = <<>>
    /\ b_calls = [k \in 1..Len(b_tasks) |-> 0]
    /\ b_evaluated = 0

\* lines 306-308: exit 1 without tasks
StartBench ==
    /\ b_pc = "ready"
    /\ b_pc' = IF b_tasks = <<>> THEN "exited" ELSE "looping"
    /\ UNCHANGED <<b_domain, b_tasks, b_next, b_results, b_calls, b_evaluated>>
    /\ UNCHANGED <<prep_vars, dedup_vars, regress_vars, score_vars>>
    /\ UNCHANGED <<tests_vars, classify_vars, filter_vars, load_vars, ops_vars>>

\* the test cases of the task the loop is at
cases_of_next_task ==
    IF b_next \in 1..Len(b_tasks) THEN b_tasks[b_next].task.test_cases ELSE <<>>

\* lines 317-322: one task: the model is called, its test cases run, the
\* result is appended
EvaluateNext(reply, outcomes) ==
    /\ b_pc = "looping"
    /\ b_next <= Len(b_tasks)
    /\ LET t == b_tasks[b_next]
           response == call_ollama(reply)
           result == evaluate_task(response, t.task, b_domain, outcomes)
       IN  b_results' = results_after(b_results, t.id, response, result)
    /\ b_calls' = [b_calls EXCEPT ![b_next] = @ + 1]
    /\ b_next' = b_next + 1
    /\ UNCHANGED <<b_pc, b_domain, b_tasks, b_evaluated>>
    /\ UNCHANGED <<prep_vars, dedup_vars, regress_vars, score_vars>>
    /\ UNCHANGED <<tests_vars, classify_vars, filter_vars, load_vars, ops_vars>>

\* lines 324-326 and 366: total_tasks = len(results)
FinishBench ==
    /\ b_pc = "looping"
    /\ b_next > Len(b_tasks)
    /\ b_evaluated' = Len(b_results)
    /\ b_pc' = "done"
    /\ UNCHANGED <<b_domain, b_tasks, b_next, b_results, b_calls>>
    /\ UNCHANGED <<prep_vars, dedup_vars, regress_vars, score_vars>>
    /\ UNCHANGED <<tests_vars, classify_vars, filter_vars, load_vars, ops_vars>>

\* ------------------------------------------------------------------------
\* train.py: main, the training attempts and the Ollama service
\* ------------------------------------------------------------------------
max_attempts == 2
MetalAbortCode == 134

\* exit codes of the training subprocess: success, an error of mlx_lm, an
\* abort (SIGABRT reported by the shell), a kill by signal 6 or 11
TrainExitCodes == {0, 1, MetalAbortCode, -6, -11}

\* every failure taken for a Metal crash
any_failure_is_crash(returncode) == returncode # 0

\* line 228
is_metal_crash(returncode) == returncode < 0 \/ returncode = MetalAbortCode

\* _record_run, lines 308-331: the status reaches the forge DB when the bun
\* subprocess runs; an exception of subprocess.run is swallowed and the
\* exit code of bun is not looked at
db_after_record_run(db, status, bun_ok) == IF bun_ok THEN status ELSE db

\* the restart without the test of ollama_was_running
restart_always(was_running, services) == Append(services, "start")

\* lines 246-248 and 299-301
restart_if_stopped(was_running, services) ==
    IF was_running THEN Append(services, "start") ELSE services

TrainIdle ==
    /\ tr_pc = "off"
    /\ tr_ollama = FALSE
    /\ tr_was_running = FALSE
    /\ tr_attempt = 1
    /\ tr_codes = <<>>
    /\ tr_services = <<>>
    /\ tr_recorded = <<>>
    /\ tr_db = "none"
    /\ tr_exit = "none"

\* line 196: the inputs are validated, the command is built
TrainInit ==
    /\ tr_pc = "checking"
    /\ tr_ollama \in BOOLEAN
    /\ tr_was_running = FALSE
    /\ tr_attempt = 1
    /\ tr_codes = <<>>
    /\ tr_services = <<>>
    /\ tr_recorded = <<>>
    /\ tr_db = "none"
    /\ tr_exit = "none"

\* lines 196-206: pgrep finds Ollama or not, or cannot be run; Ollama is
\* stopped when it was found
StopOllama(pgrep_runs) ==
    /\ tr_pc = "checking"
    /\ LET found == pgrep_runs /\ tr_ollama
       IN  /\ tr_was_running' = found
           /\ tr_services' = IF found THEN Append(tr_services, "stop") ELSE tr_services
           /\ tr_ollama' = IF found THEN FALSE ELSE tr_ollama
    /\ tr_pc' = "training"
    /\ UNCHANGED <<tr_attempt, tr_codes, tr_recorded, tr_db, tr_exit>>
    /\ UNCHANGED <<earlier_vars, active_vars, fuse_vars>>

\* lines 215-250: one pass of the loop: the subprocess runs and returns
\* `returncode`; on a failure the loop goes on to the second attempt, or
\* _record_run is called with "failed", Ollama restarted and the script
\* exits 1
TrainAttempt(returncode, bun_ok) ==
    /\ tr_pc = "training"
    /\ tr_attempt <= max_attempts
    /\ tr_codes' = Append(tr_codes, returncode)
    /\ IF returncode = 0
       THEN /\ tr_pc' = "trained"
            /\ UNCHANGED <<tr_attempt, tr_services, tr_recorded, tr_db, tr_exit, tr_ollama>>
       ELSE IF is_metal_crash(returncode) /\ tr_attempt < max_attempts
       THEN /\ tr_attempt' = tr_attempt + 1
            /\ UNCHANGED <<tr_pc, tr_services, tr_recorded, tr_db, tr_exit, tr_ollama>>
       ELSE /\ tr_recorded' = Append(tr_recorded, "failed")
            /\ tr_db' = db_after_record_run(tr_db, "failed", bun_ok)
            /\ tr_services' = restart_if_stopped(tr_was_running, tr_services)
            /\ tr_ollama' = (tr_ollama \/ tr_was_running)
            /\ tr_exit' = "failure"
            /\ tr_pc' = "exited"
            /\ UNCHANGED tr_attempt
    /\ UNCHANGED tr_was_running
    /\ UNCHANGED <<earlier_vars, active_vars, fuse_vars>>

\* lines 252-305: _record_run is called with "completed", the metadata
\* written, Ollama restarted
FinishTraining(bun_ok) ==
    /\ tr_pc = "trained"
    /\ tr_recorded' = Append(tr_recorded, "completed")
    /\ tr_db' = db_after_record_run(tr_db, "completed", bun_ok)
    /\ tr_services' = restart_if_stopped(tr_was_running, tr_services)
    /\ tr_ollama' = (tr_ollama \/ tr_was_running)
    /\ tr_exit' = "success"
    /\ tr_pc' = "exited"
    /\ UNCHANGED <<tr_was_running, tr_attempt, tr_codes>>
    /\ UNCHANGED <<earlier_vars, active_vars, fuse_vars>>

\* ------------------------------------------------------------------------
\* domain_config.py: the active domain
\* ------------------------------------------------------------------------
\* calls of one behaviour
MaxCalls == 3

DEFAULT_DOMAIN == <<"c", "o", "d", "i", "n", "g">>

DomainIds == {DEFAULT_DOMAIN, <<"t", "o", "o", "l", "s">>, <<"c", "h", "a", "t">>}

\* domains/.active
NoMarker == [exists |-> FALSE, text |-> <<>>]
Marker(text) == [exists |-> TRUE, text |-> text]

\* the marker a fresh checkout or an editor may have left
InitialMarkers ==
    { NoMarker, Marker(<<>>), Marker(<<" ", "\n">>),
      Marker(<<"t", "o", "o", "l", "s">>), Marker(<<"c", "h", "a", "t", "\n">>) }

\* domains/<id>.json: absent, a JSON document, or a file json.loads rejects
ConfigFiles == {"absent", "json", "broken"}

\* lines 17-22: whether load_domain raises (FileNotFoundError for an absent
\* file, JSONDecodeError for a broken one)
load_domain_raises(configs, domain_id) == configs[domain_id] # "json"

\* the marker read without .strip()
read_marker_unstripped(marker) ==
    IF marker.exists
    THEN (IF marker.text # <<>> THEN marker.text ELSE DEFAULT_DOMAIN)
    ELSE DEFAULT_DOMAIN

\* lines 25-30
get_active_domain_id(marker) ==
    IF marker.exists
    THEN (IF strip(marker.text) # <<>> THEN strip(marker.text) ELSE DEFAULT_DOMAIN)
    ELSE DEFAULT_DOMAIN

NoCall == [op |-> "none", id |-> <<>>, raised |-> FALSE, before |-> NoMarker]

ActiveIdle ==
    /\ a_active = NoMarker
    /\ a_configs = [d \in DomainIds |-> "absent"]
    /\ a_last = NoCall
    /\ a_set = <<>>
    /\ a_calls = 0

ActiveInit ==
    /\ a_active \in InitialMarkers
    /\ a_configs \in [DomainIds -> ConfigFiles]
    /\ a_last = NoCall
    /\ a_set = <<>>
    /\ a_calls = 0

\* lines 38-41: load_domain validates, then the marker is written
SetActiveDomain(domain_id) ==
    /\ a_calls < MaxCalls
    /\ a_calls' = a_calls + 1
    /\ IF load_domain_raises(a_configs, domain_id)
       THEN /\ a_last' = [op |-> "set", id |-> domain_id, raised |-> TRUE,
                          before |-> a_active]
            /\ UNCHANGED <<a_active, a_set>>
       ELSE /\ a_active' = Marker(domain_id \o <<"\n">>)
            /\ a_set' = domain_id
            /\ a_last' = [op |-> "set", id |-> domain_id, raised |-> FALSE,
                          before |-> a_active]
    /\ UNCHANGED a_configs
    /\ UNCHANGED <<earlier_vars, train_vars, fuse_vars>>

\* lines 25-30, called
GetActiveDomainId ==
    /\ a_calls < MaxCalls
    /\ a_calls' = a_calls + 1
    /\ a_last' = [op |-> "get", id |-> get_active_domain_id(a_active),
                  raised |-> FALSE, before |-> a_active]
    /\ UNCHANGED <<a_active, a_configs, a_set>>
    /\ UNCHANGED <<earlier_vars, train_vars, fuse_vars>>

\* ------------------------------------------------------------------------
\* fuse-and-deploy.py: main, conversion, quantization, deployment, cleanup
\* ------------------------------------------------------------------------
FuseSteps == {"fuse", "convert", "quantize", "create"}

NoSteps == [st \in FuseSteps |-> "none"]

\* the cleanup of the F16 file without the comparison of the two paths
f16_is_removed_whenever_present(files, gguf_quant) == "f16" \in files

\* line 165: gguf_f16.exists() and gguf_quant != gguf_f16
f16_is_removed(files, gguf_quant) == "f16" \in files /\ gguf_quant # "f16"

FuseIdle ==
    /\ fu_pc = "off"
    /\ fu_args = [skip_ollama |-> FALSE, skip_gguf |-> FALSE, tools |-> FALSE]
    /\ fu_files = {}
    /\ fu_gguf_quant = "quant"
    /\ fu_steps = NoSteps
    /\ fu_from = "none"
    /\ fu_removed = {}

\* lines 54-105: the adapter was found; GGUF files of an earlier run of the
\* same version may be there
FuseInit ==
    /\ fu_pc = "start"
    /\ fu_args \in [skip_ollama : BOOLEAN, skip_gguf : BOOLEAN, tools : BOOLEAN]
    /\ fu_files \in SUBSET {"f16", "quant"}
    /\ fu_gguf_quant = "quant"
    /\ fu_steps = NoSteps
    /\ fu_from = "none"
    /\ fu_removed = {}

\* lines 107-125: mlx_lm fuse; exit 1 when it fails, return with --skip-ollama
Fuse(ok) ==
    /\ fu_pc = "start"
    /\ fu_steps' = [fu_steps EXCEPT !["fuse"] = IF ok THEN "ok" ELSE "failed"]
    /\ fu_files' = IF ok THEN fu_files \cup {"fused"} ELSE fu_files
    /\ fu_pc' = IF ~ok THEN "exited" ELSE IF fu_args.skip_ollama THEN "done" ELSE "fused"
    /\ UNCHANGED <<fu_args, fu_gguf_quant, fu_from, fu_removed>>
    /\ UNCHANGED <<earlier_vars, train_vars, active_vars>>

\* _deploy_from_safetensors: ollama create from the fused directory, exit 1
\* when it fails
DeployFromSafetensors(create_ok) ==
    /\ fu_from' = IF create_ok THEN "fused" ELSE fu_from
    /\ fu_pc' = IF create_ok THEN "done" ELSE "exited"

\* lines 128-143: the conversion to an F16 GGUF; when it fails, the fallback
\* to the safetensors and return
Convert(ok, create_ok) ==
    /\ fu_pc = "fused"
    /\ ~fu_args.skip_gguf /\ fu_args.tools
    /\ IF ok
       THEN /\ fu_steps' = [fu_steps EXCEPT !["convert"] = "ok"]
            /\ fu_files' = fu_files \cup {"f16"}
            /\ fu_pc' = "converted"
            /\ UNCHANGED fu_from
       ELSE /\ fu_steps' = [fu_steps EXCEPT !["convert"] = "failed",
                                           !["create"] = IF create_ok THEN "ok" ELSE "failed"]
            /\ DeployFromSafetensors(create_ok)
            /\ UNCHANGED fu_files
    /\ UNCHANGED <<fu_args, fu_gguf_quant, fu_removed>>
    /\ UNCHANGED <<earlier_vars, train_vars, active_vars>>

\* lines 176-185: --skip-gguf or no llama.cpp tools
DeployWithoutGguf(create_ok) ==
    /\ fu_pc = "fused"
    /\ fu_args.skip_gguf \/ ~fu_args.tools
    /\ fu_steps' = [fu_steps EXCEPT !["create"] = IF create_ok THEN "ok" ELSE "failed"]
    /\ DeployFromSafetensors(create_ok)
    /\ UNCHANGED <<fu_args, fu_files, fu_gguf_quant, fu_removed>>
    /\ UNCHANGED <<earlier_vars, train_vars, active_vars>>

\* lines 145-159: llama-quantize; when it fails gguf_quant = gguf_f16
Quantize(ok) ==
    /\ fu_pc = "converted"
    /\ fu_steps' = [fu_steps EXCEPT !["quantize"] = IF ok THEN "ok" ELSE "failed"]
    /\ fu_files' = IF ok THEN fu_files \cup {"quant"} ELSE fu_files
    /\ fu_gguf_quant' = IF ok THEN fu_gguf_quant ELSE "f16"
    /\ fu_pc' = "quantized"
    /\ UNCHANGED <<fu_args, fu_from, fu_removed>>
    /\ UNCHANGED <<earlier_vars, train_vars, active_vars>>

\* lines 161-174: _deploy_from_gguf(version, gguf_quant), exit 1 when ollama
\* create fails; then the cleanup of the F16 file and of a fused directory
\* of more than 5 GB
DeployAndCleanUp(create_ok, fused_is_large) ==
    /\ fu_pc = "quantized"
    /\ fu_steps' = [fu_steps EXCEPT !["create"] = IF create_ok THEN "ok" ELSE "failed"]
    /\ IF create_ok
       THEN LET removed == (IF f16_is_removed(fu_files, fu_gguf_quant) THEN {"f16"} ELSE {})
                           \cup (IF fused_is_large THEN {"fused"} ELSE {})
            IN  /\ fu_from' = fu_gguf_quant
                /\ fu_removed' = removed
                /\ fu_files' = fu_files \ removed
                /\ fu_pc' = "done"
       ELSE /\ fu_pc' = "exited"
            /\ UNCHANGED <<fu_from, fu_removed, fu_files>>
    /\ UNCHANGED <<fu_args, fu_gguf_quant>>
    /\ UNCHANGED <<earlier_vars, train_vars, active_vars>>

OpsIdle == TrainIdle /\ ActiveIdle /\ FuseIdle

\* every other part idle
EarlierIdle ==
    /\ PrepInit /\ DedupIdle /\ RegressInit /\ ScoreIdle
    /\ TestsIdle /\ ClassifyIdle /\ FilterIdle /\ LoadIdle /\ BenchIdle

MoreIdle == TestsIdle /\ ClassifyIdle /\ FilterIdle /\ LoadIdle /\ BenchIdle /\ OpsIdle

\* ------------------------------------------------------------------------
\* Specifications
\* ------------------------------------------------------------------------
Init == PrepInit /\ DedupIdle /\ RegressInit /\ ScoreIdle /\ MoreIdle

\* one invocation of prepare-data on a fresh installation, any input
FirstRun == /\ runs = 0
            /\ \E input \in InputsUpTo(MaxLines), a \in ArgsUniverse :
                  Load("w1", input, a)

Next == FirstRun \/ Curate \/ Assemble

Spec == Init /\ [][Next]_vars

\* repeated invocations in one installation
NextRun == /\ runs < MaxRuns
           /\ \E input \in RunInputs, a \in RunArgs : Load("w1", input, a)

NextRuns == NextRun \/ Curate \/ Assemble

SpecRuns == Init /\ [][NextRuns]_vars

\* invocations in two installations
TwinRun == /\ runs < MaxTwinRuns
           /\ \E w \in Workspaces, input \in TwinInputs, a \in TwinArgs :
                 Load(w, input, a)

NextTwin == TwinRun \/ Curate \/ Assemble

SpecTwin == Init /\ [][NextTwin]_vars

\* one invocation on files of ground-truth pairs
GroundTruthRun ==
    /\ runs = 0
    /\ \E raw \in SeqsUpTo(GroundTruthUniverse, MaxGroundTruthLines), a \in GroundTruthArgs :
          Load("w1", [raw |-> raw, si |-> <<>>, tool |-> <<>>], a)

NextGroundTruth == GroundTruthRun \/ Curate \/ Assemble

SpecGroundTruth == Init /\ [][NextGroundTruth]_vars

\* the deduplication step, on every list of up to MaxDedup prompts
InitDedup == PrepInit /\ DedupInit /\ RegressInit /\ ScoreIdle /\ MoreIdle

NextDedup == DedupOnce \/ DedupAgain

SpecDedup == InitDedup /\ [][NextDedup]_vars

\* benchmark runs, each persisted and checked for a regression
NextRegress == \E v \in EvalVersions, d \in EvalDomains, a \in EvalScores :
                  EvalRun(v, d, a)

SpecRegress == Init /\ [][NextRegress]_vars

\* the evaluation of one benchmark task, for every task, response and outcome
InitScore == PrepInit /\ DedupIdle /\ RegressInit /\ ScoreInit /\ MoreIdle

NextScore ==
    \/ \E response \in Responses : CallOllama(response)
    \/ \E outcomes \in [1..Len(e_task.test_cases) -> TestOutcomes] : ScoreTask(outcomes)

SpecScore == InitScore /\ [][NextScore]_vars

\* the test cases of one task, for every suite and outcome
InitTests == PrepInit /\ DedupIdle /\ RegressInit /\ ScoreIdle /\ TestsInit /\ ClassifyIdle /\ FilterIdle /\ LoadIdle /\ BenchIdle /\ OpsIdle

NextTests == (\E outcome \in OutcomesFor(t_cases) : RunTest(outcome)) \/ ReturnScore

SpecTests == InitTests /\ [][NextTests]_vars

\* one classification, for every hit count and hint
InitClassify ==
    PrepInit /\ DedupIdle /\ RegressInit /\ ScoreIdle /\ TestsIdle /\ ClassifyInit /\ FilterIdle /\ LoadIdle /\ BenchIdle /\ OpsIdle

NextClassify == ClassifyPrompt

SpecClassify == InitClassify /\ [][NextClassify]_vars

\* one record filtered under the domain's thresholds and under stricter ones
InitFilter ==
    /\ PrepInit /\ DedupIdle /\ RegressInit /\ ScoreIdle
    /\ TestsIdle /\ ClassifyIdle /\ FilterInit /\ LoadIdle /\ BenchIdle /\ OpsIdle

NextFilter == FilterTwice

SpecFilter == InitFilter /\ [][NextFilter]_vars

\* one file read by one loader, for every file of up to MaxFileLines lines
InitLoad ==
    /\ PrepInit /\ DedupIdle /\ RegressInit /\ ScoreIdle
    /\ TestsIdle /\ ClassifyIdle /\ FilterIdle /\ LoadInit /\ BenchIdle /\ OpsIdle

NextLoad == LoadFile \/ LoadRaises

SpecLoad == InitLoad /\ [][NextLoad]_vars

\* a benchmark run, task by task; each step of the loop ends (the model call
\* after at most 120 s, a test case after at most 10 s), so the loop is
\* weakly fair
InitBench ==
    /\ PrepInit /\ DedupIdle /\ RegressInit /\ ScoreIdle
    /\ TestsIdle /\ ClassifyIdle /\ FilterIdle /\ LoadIdle /\ BenchInit /\ OpsIdle

NextBench ==
    \/ StartBench
    \/ \E reply \in Replies,
          outcomes \in [1..Len(cases_of_next_task) -> BenchOutcomes] :
            EvaluateNext(reply, outcomes)
    \/ FinishBench

SpecBench == InitBench /\ [][NextBench]_vars /\ WF_vars(NextBench)

\* one invocation of train.py whose inputs are valid; every step is a
\* subprocess call that returns, so the script goes on until it exits
InitTrain == EarlierIdle /\ TrainInit /\ ActiveIdle /\ FuseIdle

NextTrain ==
    \/ \E pgrep_runs \in BOOLEAN : StopOllama(pgrep_runs)
    \/ \E returncode \in TrainExitCodes, bun_ok \in BOOLEAN :
          TrainAttempt(returncode, bun_ok)
    \/ \E bun_ok \in BOOLEAN : FinishTraining(bun_ok)

SpecTrain == InitTrain /\ [][NextTrain]_vars /\ WF_vars(NextTrain)

\* calls of set_active_domain and get_active_domain_id on a domains directory
InitActive == EarlierIdle /\ TrainIdle /\ ActiveInit /\ FuseIdle

NextActive ==
    \/ \E domain_id \in DomainIds : SetActiveDomain(domain_id)
    \/ GetActiveDomainId

SpecActive == InitActive /\ [][NextActive]_vars

\* one invocation of fuse-and-deploy
InitFuse == EarlierIdle /\ TrainIdle /\ ActiveIdle /\ FuseInit

NextFuse ==
    \/ \E ok \in BOOLEAN : Fuse(ok)
    \/ \E ok \in BOOLEAN, create_ok \in BOOLEAN : Convert(ok, create_ok)
    \/ \E create_ok \in BOOLEAN : DeployWithoutGguf(create_ok)
    \/ \E ok \in BOOLEAN : Quantize(ok)
    \/ \E create_ok \in BOOLEAN, fused_is_large \in BOOLEAN :
          DeployAndCleanUp(create_ok, fused_is_large)

SpecFuse == InitFuse /\ [][NextFuse]_vars

\* ------------------------------------------------------------------------
\* Properties
\* ------------------------------------------------------------------------
OutDir == args.domain.id

TraceTypes == {"self_iterate", "tool_trace"}

\* C1: every self-iteration and tool-trace record that reaches deduplication
\* has a prompt of at least the domain's minimum prompt length and a combined
\* prompt+response length of at most the hard cap of 24000 characters.
C1_TracesPassLengthChecks ==
    \A i \in 1..Len(filtered) :
        filtered[i].type \in TraceTypes =>
            /\ Len(filtered[i].prompt)
                 >= GetOr(args.domain.min_prompt_length, DefaultMinPromptLength)
            /\ Len(filtered[i].prompt) + filtered[i].gold_response.len <= MaxChars

\* the persisted runs of the domain of the last run that ran before it
EarlierSameDomain ==
    {i \in 1..(Len(run_log) - 1) : run_log[i].domain = run_log[Len(run_log)].domain}

SetMax(S) == CHOOSE x \in S : \A y \in S : y <= x

\* C2: the regression check of a run compares with the immediately preceding
\* persisted run of the same domain, and with no other result record.
C2_ComparesWithPrecedingRunOfDomain ==
    check.done =>
        /\ EarlierSameDomain # {}
        /\ check.prev = run_log[SetMax(EarlierSameDomain)].name

\* C3: a run whose overall average is more than 5 points below that of the
\* preceding persisted run is flagged as a regression, and one whose average
\* is higher is reported as an improvement.  Stated for the runs that carry a
\* version label and follow a run of their own domain.
C3_DropFlaggedRiseReported ==
    LET n == Len(run_log)
    IN  (/\ n >= 2
         /\ run_log[n].version # Latest
         /\ run_log[n - 1].domain = run_log[n].domain)
        => /\ check.avg_total < run_log[n - 1].overall_score - RegressionDrop * 1000
                => check.flag = "regression"
           /\ check.avg_total > run_log[n - 1].overall_score
                => check.flag = "improvement"

FirstFive(s) == SubSeq(s, 1, Min(5, Len(s)))

\* C4: after every run that completes, the test file of the domain holds
\* exactly the first min(5, |valid|) records of that run's validation
\* partition.
C4_TestFileIsHeadOfValidation ==
    pc = "done" => fs[ws][OutDir].test = File(FirstFive(valid))

\* C5: two runs over the same deduplicated input with the same split ratio
\* (and system prompt) leave identical train, valid and test files.
C5_SameInputSameFiles ==
    \A d \in DataDirs :
        (/\ last_run["w1"][d].ran
         /\ last_run["w2"][d].ran
         /\ last_run["w1"][d] = last_run["w2"][d])
        => fs["w1"][d] = fs["w2"][d]

C7_AbortLeavesFiles ==
    /\ pc \in {"loaded", "curated", "done"} => Len(all_data) > 0
    /\ pc \in {"curated", "done"} => Len(deduped) >= args.min_pairs
    /\ pc \in {"loaded", "curated", "failed"} => fs = before

\* an abort for too few examples in a directory that holds an earlier dataset
C7_AbortedOverEarlierDataset ==
    /\ pc = "failed"
    /\ Len(all_data) > 0
    /\ Len(deduped) < args.min_pairs
    /\ fs[ws][OutDir].train.exists
    /\ fs[ws][OutDir].train.lines # <<>>
    /\ fs[ws][OutDir].test.lines # <<>>

\* the canonical prompt: between its first and last non-blank character, in
\* lower case
Canonical(prompt) ==
    LET solid == {i \in 1..Len(prompt) : prompt[i] \notin WhitespaceChars}
    IN  IF solid = {} THEN <<>>
        ELSE LET lo == CHOOSE i \in solid : \A j \in solid : i <= j
                 hi == SetMax(solid)
             IN  [k \in 1..(hi - lo + 1) |-> lower_char(prompt[lo + k - 1])]

FirstOfItsPrompt(i) ==
    \A j \in 1..(i - 1) : Canonical(d_in[j].prompt) # Canonical(d_in[i].prompt)

\* C8: deduplication keeps, for each canonical prompt, exactly the first
\* record in input order, drops every later one, and keeps the survivors in
\* their input order.
C8_FirstOccurrenceWins ==
    d_pc \in {"once", "twice"} =>
        /\ {d_out[k] : k \in 1..Len(d_out)}
             = {d_in[i] : i \in {i \in 1..Len(d_in) : FirstOfItsPrompt(i)}}
        /\ \A k \in 1..(Len(d_out) - 1) : d_out[k].id < d_out[k + 1].id

\* "a" first, " A " later, and a record of another prompt after them
C8_DuplicateDropped ==
    /\ d_pc = "once"
    /\ Len(d_in) = 3
    /\ d_in[1].prompt = <<"a">>
    /\ d_in[2].prompt = <<" ", "A", " ">>
    /\ d_out = <<d_in[1], d_in[3]>>

\* C9: deduplication applied to its own output returns that output unchanged.
C9_DedupIdempotent ==
    d_pc = "twice" => d_again = d_out

\* a second application to an output from which duplicates were dropped
C9_AppliedTwice ==
    /\ d_pc = "twice"
    /\ Len(d_out) >= 2
    /\ Len(d_out) < Len(d_in)

SubScoreNames == {"structure", "correctness", "similarity", "completeness"}

SubScore(name) ==
    CASE name = "structure" -> e_result.structure_score
      [] name = "correctness" -> e_result.correctness_score
      [] name = "similarity" -> e_result.similarity_score
      [] name = "completeness" -> e_result.completeness_score

\* C10: each of the four sub-scores is between 0 and the weight the domain
\* configures for it, and total_score is their sum.
C10_SubScoresWithinWeights ==
    e_pc = "scored" =>
        /\ \A name \in SubScoreNames :
              0 <= SubScore(name) /\ SubScore(name) <= e_domain.weight[name]
        /\ e_result.total_score
             = SubScore("structure") + SubScore("correctness")
               + SubScore("similarity") + SubScore("completeness")

\* the test cases that ran to exit code 0 and printed the expected value (any
\* output when none is expected)
PassedCases ==
    {i \in 1..Len(t_log) :
        \/ t_log[i] = "exit0_match"
        \/ t_log[i] = "exit0_other" /\ ~t_cases[i].expected}

\* C11: with a code block in the response and at least one test case, the
\* correctness sub-score is weight x (passed / total); read as the integer part
\* of that product, the sub-score being an integer.
C11_CorrectnessIsWeightedPassRate ==
    t_pc = "returned" =>
        t_score = (t_weight * Cardinality(PassedCases)) \div Len(t_cases)

\* C19: a test execution that times out, exits non-zero or raises is a test
\* case not passed; every test case is handled once, in order, and a score is
\* returned.
C19_FailedExecutionNotPassed ==
    /\ t_pc \in {"running", "returned"} =>
          /\ Len(t_log) = t_next - 1
          /\ t_passed = Cardinality(PassedCases)
          /\ \A i \in 1..Len(t_log) :
                t_log[i] = "no_code" <=> ~t_cases[i].has_code
    /\ t_pc = "returned" =>
          /\ Len(t_log) = Len(t_cases)
          /\ t_score \in 0..t_weight

\* a timeout and a crash, then a test case that passes
C19_PassedAfterTimeout ==
    /\ t_pc = "returned"
    /\ t_log = <<"timeout", "raised", "exit0_match">>
    /\ t_passed = 1
    /\ t_score = t_weight \div 3

\* C12: classify_prompt returns a confidence in [0,1] and a type whose
\* bonus-adjusted score is the maximum of the returned score map.
C12_ConfidenceAndArgMax ==
    c_pc = "classified" =>
        /\ 0 <= c_result.confidence /\ c_result.confidence <= ScoreScale
        /\ c_result.type \in DOMAIN c_result.scores
        /\ \A t \in DOMAIN c_result.scores :
              c_result.scores[t] <= c_result.scores[c_result.type]

\* one coding hit, and the tool-call bonus makes tools the type
C12_BonusDecides ==
    /\ c_pc = "classified"
    /\ c_raw["coding"] = 1
    /\ c_raw["tools"] = 0
    /\ c_result.type = "tools"
    /\ c_result.confidence < ScoreScale

ShortWithoutHits ==
    /\ c_pc = "classified"
    /\ c_len < 30
    /\ \A t \in DOMAIN c_raw : c_raw[t] = 0

\* C13, as claimed: a prompt under 30 characters without a hit in any bank is
\* classified chat, whatever the hints.
C13_ShortNoHitIsChat ==
    ShortWithoutHits => c_result.type = "chat"

\* C13, amended: ... is classified chat, unless the hints carry tool-call
\* evidence together with a non-empty list of tools used.
C13_ShortNoHitIsChatUnlessToolsUsed ==
    (ShortWithoutHits /\ ~(c_hints.has_tool_calls /\ c_hints.tools_used > 0))
        => c_result.type = "chat"

\* chat although the response shows tool calls, the prompt a code fence and
\* the response is long
C13_ChatDespiteHints ==
    /\ ShortWithoutHits
    /\ c_hints.has_tool_calls
    /\ c_hints.tools_used = 0
    /\ c_fenced
    /\ c_hints.response_length > 2000
    /\ c_result.type = "chat"

\* C14: a record that filter_pair rejects under the domain's thresholds is
\* rejected under a larger minimum prompt length and a smaller maximum
\* combined length as well.
C14_FilterMonotonic ==
    f_pc = "filtered" => (~f_kept => ~f_kept_stricter)

\* a record one character under the domain's minimum, rejected under both
C14_RejectedUnderBoth ==
    /\ f_pc = "filtered"
    /\ Len(f_pair.prompt) = 20
    /\ f_domain.min_prompt_length = Set(22)
    /\ f_pair.claude_response = Text(600, 2)
    /\ f_pair.local_response = Text(100, 0)
    /\ ~f_kept
    /\ ~f_kept_stricter

\* the task types a domain accepts: those of its configuration, and coding
\* for the tools domain
ConfiguredTypes(domain) ==
    domain.task_types \cup (IF domain.id = "tools" THEN {"coding"} ELSE {})

\* C15: a record is routed into the dataset of a domain only if its task_type
\* is in the accepted set of the domain's configuration (for the tools
\* domain, coding as well).
C15_RoutedOnlyIfAccepted ==
    pc \in {"curated", "done"} =>
        \A i \in 1..Len(type_filtered) :
            type_filtered[i].task_type \in ConfiguredTypes(args.domain)

\* C16: with --task-type T, every record written to the train, valid and
\* test outputs has task_type T.
C16_OverrideRestrictsOutput ==
    (pc = "done" /\ args.task_type # "") =>
        \A i \in 1..Len(deduped) : deduped[i].task_type = args.task_type

\* the response of a loaded record: the gold response of a trace, the
\* response or the diff of a pair
ResponseOf(record) ==
    IF record.type \in TraceTypes THEN record.gold_response
    ELSE IF Truthy(record.claude_response) THEN record.claude_response
    ELSE record.ground_truth_diff

\* C17: every record yielded by the three loaders has a response of at least
\* the domain's minimum response length (default 50).
C17_LoadedResponsesLongEnough ==
    pc = "loaded" =>
        \A i \in 1..Len(all_data) :
            ResponseOf(all_data[i]).len
              >= GetOr(args.domain.min_response_length, DefaultMinResponseLength)

JsonLinesOf(file) ==
    LET IsObject(line) == line.kind = "object"
    IN  SelectSeq(file, IsObject)

\* C18: in the three loaders and the benchmark loader, a line that is not
\* valid JSON is skipped without aborting the load, and the other lines are
\* loaded in file order: the load returns what it returns for the file
\* without that line.
C18_NonJsonLinesSkipped ==
    /\ l_pc # "raised"
    /\ l_pc = "loaded" => l_out = Loaded(l_loader, JsonLinesOf(l_file))

\* every task up to the one the loop is at has one result, in file order,
\* from one model call
OneResultPerTask ==
    /\ Len(b_results) = b_next - 1
    /\ \A k \in 1..Len(b_results) :
          /\ b_results[k].task_id = b_tasks[k].id
          /\ b_calls[k] = 1
    /\ \A k \in b_next..Len(b_tasks) : b_calls[k] = 0

\* C20: a benchmark run with a non-empty task list runs to completion; every
\* task is evaluated once, in file order, and gives one result record, also
\* when model calls or test executions fail; tasks_evaluated is the number
\* of loaded tasks.
C20_RunCompletesEveryTaskOnce ==
    /\ [](b_pc \in {"looping", "done"} => OneResultPerTask)
    /\ [](b_pc = "done" => /\ Len(b_results) = Len(b_tasks)
                           /\ b_evaluated = Len(b_tasks))
    /\ [](b_pc = "ready" /\ b_tasks # <<>> => <>(b_pc = "done"))

\* a completed run of three tasks whose second model call failed and whose
\* third task had every test case fail
C20_CompletedDespiteFailedCall ==
    /\ b_pc = "done"
    /\ Len(b_tasks) = 3
    /\ b_evaluated = 3
    /\ b_results[2].result.response_length = ErrorResponse.len
    /\ b_results[3].result.has_code
    /\ b_tasks[3].task.test_cases # <<>>
    /\ b_results[3].result.correctness_score = 0

\* a record of type ground_truth that carries a diff
GroundTruthRecord(p) == p.type = "ground_truth" /\ p.ground_truth_diff.len > 0

GroundTruthIn(pairs) == {i \in 1..Len(pairs) : GroundTruthRecord(pairs[i])}

C22_AssembledRecordsClassifiedAndFiltered ==
    pc \in {"curated", "done"} =>
        \A i \in 1..Len(deduped) :
            /\ deduped[i].task_type # ""
            /\ deduped[i].type \notin {"self_iterate", "tool_trace"}
                  => filter_pair(deduped[i], args.domain, MaxChars)

\* a finished run that assembled a pair classify_pair had tagged and a trace
C22_ClassifiedPairAssembled ==
    /\ pc = "done"
    /\ Len(deduped) = 2
    /\ \E i \in 1..2 : deduped[i].type = "" /\ deduped[i].task_type_confidence >= 0
    /\ \E i \in 1..2 : deduped[i].type \in {"self_iterate", "tool_trace"}

\* the place of a task type in the order coding, reasoning, tools, chat
OrderOf(t) == CHOOSE i \in 1..Len(TaskTypes) : TaskTypes[i] = t

\* C23: when several categories share the greatest bonus-adjusted score,
\* classify_prompt returns the first of them in the order coding, reasoning,
\* tools, chat.
C23_TieGoesToFirstInOrder ==
    c_pc = "classified" =>
        \A t \in DOMAIN c_result.scores :
            c_result.scores[t] = c_result.scores[c_result.type]
                => OrderOf(c_result.type) <= OrderOf(t)

\* tools and chat share a greatest score that is not zero, and tools is
\* returned
C23_ToolsBeforeChat ==
    /\ c_pc = "classified"
    /\ c_result.scores["tools"] = c_result.scores["chat"]
    /\ c_result.scores["tools"] > c_result.scores["coding"]
    /\ c_result.scores["tools"] > c_result.scores["reasoning"]
    /\ c_result.type = "tools"

\* what classify_prompt added to the tools score for tools_used
ToolsUsedBonus ==
    c_result.scores["tools"]
    - (c_raw["tools"] * ScoreScale) \div BankSize("tools")
    - (IF c_hints.has_tool_calls THEN Bonus(8) ELSE 0)

DistinctTools == {c_tools[i] : i \in 1..Len(c_tools)}

\* C24: the bonus for tools_used is 0.1 times the number of distinct tools
\* in the list, at most 3 of them counted, so it is at most 0.3 and a name
\* that is repeated adds nothing.
C24_BonusPerDistinctTool ==
    c_pc = "classified" =>
        /\ ToolsUsedBonus = Bonus(2) * Min(Cardinality(DistinctTools), 3)
        /\ ToolsUsedBonus <= Bonus(6)

\* C25: a test case counts as passed exactly when its subprocess exits with
\* code 0 and, whenever the test case gives an expected value (0 and other
\* values Python takes for false included), the trimmed stdout equals it.
C25_PassedIffCleanExitAndMatch ==
    t_pc \in {"running", "returned"} =>
        t_passed = Cardinality({i \in 1..Len(t_log) :
                                  \/ t_log[i] = "exit0_match"
                                  \/ t_log[i] = "exit0_other" /\ ~t_cases[i].given})

\* train followed by valid, as written by the last step
Written == train \o valid

\* C26: after the split, the move of one record to validation included,
\* every deduplicated example is in exactly one of train and valid, nothing
\* else is in them, and no canonical prompt is in both.
C26_SplitIsPartition ==
    pc = "done" =>
        /\ Len(Written) = Len(deduped)
        /\ \A i \in 1..Len(deduped) :
              Cardinality({k \in 1..Len(Written) :
                  Written[k] = to_chat_format(deduped[i], args.domain.system_prompt)}) = 1
        /\ \A a \in 1..Len(train), b \in 1..Len(valid) :
              lower(strip(train[a].user)) # lower(strip(valid[b].user))

\* a run that dropped a duplicate prompt and moved one record to validation
C26_MovedAfterDuplicateDropped ==
    /\ pc = "done"
    /\ Len(deduped) < Len(all_data)
    /\ Len(deduped) = 3
    /\ split_idx(Len(deduped), args.split_ratio) >= Len(deduped)
    /\ Len(train) = 2
    /\ Len(valid) = 1

\* the last training subprocess failed and no further attempt follows: it
\* was the second, or its code is neither negative nor 134
FinalFailure ==
    /\ tr_codes # <<>>
    /\ LET code == tr_codes[Len(tr_codes)]
       IN  /\ code # 0
           /\ Len(tr_codes) = 2 \/ ~(code < 0 \/ code = 134)

AtMostOneRetry ==
    /\ Len(tr_codes) <= 2
    /\ Len(tr_codes) = 2 => (tr_codes[1] < 0 \/ tr_codes[1] = 134)

\* C27, as claimed: the training command is started at most twice, a second
\* time only after a first attempt that ended with a negative code or 134;
\* any other failure, and a failure of the second attempt, ends the
\* invocation with a failure exit and the run recorded as failed.
C27_FailureIsRecorded ==
    /\ AtMostOneRetry
    /\ FinalFailure => tr_pc = "exited" /\ tr_exit = "failure" /\ tr_db = "failed"

\* C27, amended: ... ends the invocation with a failure exit after one call
\* of _record_run with status failed, which leaves the run recorded as
\* failed or, when the bun subprocess of _record_run does not run, not
\* recorded at all.
C27_FailureIsReported ==
    /\ AtMostOneRetry
    /\ FinalFailure =>
          /\ tr_pc = "exited"
          /\ tr_exit = "failure"
          /\ tr_recorded = <<"failed">>
          /\ tr_db \in {"failed", "none"}
    /\ tr_exit = "failure" => FinalFailure

\* a crash with code 134, then a second attempt killed by a signal
C27_SecondAttemptFailed ==
    /\ tr_pc = "exited"
    /\ tr_codes = <<134, -11>>
    /\ tr_exit = "failure"
    /\ tr_recorded = <<"failed">>
    /\ tr_db = "failed"

\* C28: when the script stopped Ollama, it starts it again on every path
\* on which the training subprocess returned, before it exits; it never
\* starts Ollama when it did not stop it.
C28_OllamaRestartedIffStopped ==
    /\ [](tr_pc = "exited" =>
            IF tr_was_running THEN tr_services = <<"stop", "start">> /\ tr_ollama
            ELSE tr_services = <<>>)
    /\ [](tr_pc # "exited" => tr_services \in {<<>>, <<"stop">>})
    /\ [](tr_services = <<"stop">> => <>(tr_services = <<"stop", "start">>))

\* Ollama was stopped, training failed after a retry, Ollama runs again
C28_RestartedAfterFailedRetry ==
    /\ tr_pc = "exited"
    /\ tr_was_running
    /\ Len(tr_codes) = 2
    /\ tr_exit = "failure"
    /\ tr_services = <<"stop", "start">>

\* C29: set_active_domain on an id without configuration file raises and
\* leaves the marker as it was; after a successful set_active_domain(d),
\* get_active_domain_id returns d until the next successful set; with the
\* marker missing or empty it returns coding.
C29_ActiveDomainMarker ==
    /\ a_last.op = "set" =>
          /\ a_configs[a_last.id] = "absent" => a_last.raised
          /\ a_last.raised => a_active = a_last.before
          /\ ~a_last.raised => a_set = a_last.id
    /\ (a_last.op = "get" /\ a_set # <<>>) => a_last.id = a_set
    /\ (a_last.op = "get" /\ a_set = <<>>
          /\ (~a_active.exists \/ a_active.text = <<>>))
          => a_last.id = DEFAULT_DOMAIN

\* a set that raised after a successful one, which left the marker
C29_FailedSetKeepsMarker ==
    /\ a_last.op = "set"
    /\ a_last.raised
    /\ a_set # <<>>
    /\ a_set # a_last.id
    /\ a_active = Marker(a_set \o <<"\n">>)

\* C30: the GGUF file the Ollama model was created from is not removed by
\* the cleanup; the F16 file is removed only after a successful
\* quantization and the creation of the model from the quantized file;
\* after a failed quantization the model is created from the F16 file, which
\* stays; after a failed conversion the model is created from the fused
\* safetensors and nothing is removed.
C30_DeployedGgufKept ==
    /\ fu_from \in {"f16", "quant"} => fu_from \in fu_files
    /\ "f16" \in fu_removed => fu_steps["quantize"] = "ok" /\ fu_from = "quant"
    /\ (fu_steps["quantize"] = "failed" /\ fu_pc = "done")
          => fu_from = "f16" /\ "f16" \in fu_files
    /\ fu_steps["convert"] = "failed" =>
          /\ fu_removed = {}
          /\ fu_from \in {"none", "fused"}
          /\ fu_pc = "done" => fu_from = "fused"

\* quantization failed, the model was created from the F16 file and the
\* large fused directory was removed
C30_F16DeployedAndKept ==
    /\ fu_pc = "done"
    /\ fu_steps["quantize"] = "failed"
    /\ fu_from = "f16"
    /\ fu_removed = {"fused"}
    /\ "f16" \in fu_files

====
